---- MODULE Spec2Model ----
(***************************************************************************)
(* StoryNet validator (neurons/validator.py): the reputation pipeline.     *)
(*   Spec        - run_step as a state machine over the validator's state  *)
(*                 (EMA scores, history, violations, blacklist)            *)
(*   SpecScore   - score_response / apply_model_quality_multiplier applied *)
(*                 to inputs drawn from bounded sets                       *)
(*   SpecWeights - calculate_weights applied to inputs drawn from bounded  *)
(*                 sets                                                    *)
(* Floats are modelled as exact rationals <<n, d>> in lowest terms.        *)
(***************************************************************************)
EXTENDS Integers, Sequences, FiniteSets, TLC

VARIABLES
    scores,         \* self.scores: {uid: ema_score}
    history,        \* self.history: deque(maxlen=1000) of entries
    blacklist,      \* self.blacklist: set of uids
    violations,     \* self.violations: {uid: count}
    total_queries,  \* self.total_queries
    model_policy,   \* self.model_policy, loaded once by __init__
    axons,          \* self.metagraph.axons: uid -> is the axon valid
    stake,          \* self.metagraph.S: uid -> stake
    selected_uids,  \* last run_step: the uids queried, in order
    responses,      \* last run_step: what query_miners returned, in order
    new_scores,     \* last run_step: its local `scores`, {uid: score}
    flags,          \* last run_step: {uid: plag_type} of the responses flagged
    raised,         \* last run_step: uid whose scoring raised, or NoUid
    ema_updated,    \* last run_step: did update_ema_scores run
    steps,          \* number of run_step invocations so far
    in_sub,         \* SpecScore input: the four scorers' raw outputs
    in_data,        \* SpecScore input: response.output_data
    in_model_info,  \* SpecScore input: response.model_info
    out_score,      \* SpecScore output: <<(final_score, breakdown)>> once computed
    weights,        \* SpecWeights output: <<calculate_weights()>> once computed
    historical_avgs,\* SpecWeights: <<{uid: historical_avg}>> as calculate_weights computed it
    tech_in,        \* SpecTech input: response data, generation_time, task_type
    tech_out,       \* SpecTech output: the results of calculate_technical_score
    narr_in,        \* SpecNarrative input: config, content, the judge's replies
    narr_out,       \* SpecNarrative output: <<evaluate()>> once computed
    ema_in,         \* SpecEma input: alpha, the score fed, the EMA before
    ema_n,          \* SpecEma: number of updates so far
    struct_in,      \* SpecStructure input: response data and task_type
    struct_out,     \* SpecStructure output: <<calculate_structure_score()>>
    judge_config,   \* SpecNarrativeCache: the evaluator's self.config
    judge_cache,    \* SpecNarrativeCache: self.cache, content hash -> entry
    judge_clock,    \* SpecNarrativeCache: time.time(), in seconds
    judge_log,      \* SpecNarrativeCache: the evaluate calls made so far
    task_pc,        \* SpecTask: where the validator's coroutine stands
    settled,        \* SpecTask: positions of the batch the loop is done with
    in_flight       \* SpecTask: position -> result of its plagiarism check,
                    \* for the responses checked and not yet settled

vars == <<scores, history, blacklist, violations, total_queries, model_policy,
          axons, stake, selected_uids, new_scores, flags,
          raised, ema_updated, steps, in_sub, in_data, in_model_info,
          out_score, weights, historical_avgs, responses,
          tech_in, tech_out, narr_in, narr_out, ema_in, ema_n,
          struct_in, struct_out, judge_config, judge_cache, judge_clock,
          judge_log, task_pc, settled, in_flight>>

validatorVars == <<scores, history, blacklist, violations, total_queries,
                   model_policy, axons, stake>>
taskVars == <<task_pc, settled, in_flight>>
stepVars == <<selected_uids, responses, new_scores, flags, raised,
              ema_updated, steps, taskVars>>
weightVars == <<weights, historical_avgs>>
structVars == <<struct_in, struct_out>>
cacheVars == <<judge_config, judge_cache, judge_clock, judge_log>>
auxVars == <<tech_in, tech_out, narr_in, narr_out, ema_in, ema_n, structVars,
             cacheVars>>
scoreVars == <<in_sub, in_data, in_model_info, out_score>>

----------------------------------------------------------------------------
(* Bounds of the model *)

\* number of miners in the metagraph (uids 0 .. NumPeers-1)
NumPeers == 2
\* number of run_step invocations explored
MaxSteps == 4

Peers == 0 .. (NumPeers - 1)

----------------------------------------------------------------------------
(* Python values *)

None == "None"
NoUid == -1
EmptyDict == <<>>

\* dict.get(key, default)
DictGet(d, k, default) == IF k \in DOMAIN d THEN d[k] ELSE default

\* d[k] = v on a dict
DictSet(d, k, v) == [x \in (DOMAIN d) \cup {k} |-> IF x = k THEN v ELSE d[x]]

\* `sub in s` on strings (sequences of characters)
Contains(sub, s) ==
    \E i \in 0 .. (Len(s) - Len(sub)) :
        \A j \in 1 .. Len(sub) : s[i + j] = sub[j]

----------------------------------------------------------------------------
(* Exact arithmetic standing for Python floats: <<n, d>>, d > 0, gcd 1 *)

RECURSIVE GCD(_, _)
GCD(a, b) == IF b = 0 THEN a ELSE GCD(b, a % b)

Abs(x) == IF x < 0 THEN -x ELSE x

Rat(n, d) ==
    LET g == GCD(Abs(n), Abs(d))
        s == IF d < 0 THEN -1 ELSE 1
    IN  IF n = 0 THEN <<0, 1>> ELSE <<s * (n \div g), s * (d \div g)>>

Zero == <<0, 1>>
One == <<1, 1>>
R(n) == <<n, 1>>

RMul(a, b) ==
    LET g1 == GCD(Abs(a[1]), b[2])
        g2 == GCD(Abs(b[1]), a[2])
    IN  IF a[1] = 0 \/ b[1] = 0 THEN Zero
        ELSE <<(a[1] \div g1) * (b[1] \div g2), (a[2] \div g2) * (b[2] \div g1)>>

RDiv(a, b) == RMul(a, IF b[1] < 0 THEN <<-b[2], -b[1]>> ELSE <<b[2], b[1]>>)

RAdd(a, b) ==
    LET g == GCD(a[2], b[2])
        l == (a[2] \div g) * b[2]
    IN  Rat(a[1] * (l \div a[2]) + b[1] * (l \div b[2]), l)

\* n1/d1 < n2/d2 for non-negative fractions, by comparing the integer parts
\* and then the inverted remainders (no product is formed)
RECURSIVE FracLess(_, _, _, _)
FracLess(n1, d1, n2, d2) ==
    LET q1 == n1 \div d1
        q2 == n2 \div d2
        r1 == n1 % d1
        r2 == n2 % d2
    IN  IF q1 # q2 THEN q1 < q2
        ELSE IF r2 = 0 THEN FALSE
        ELSE IF r1 = 0 THEN TRUE
        ELSE FracLess(d2, r2, d1, r1)

RLess(a, b) == FracLess(a[1], a[2], b[1], b[2])

RLeq(a, b) == ~RLess(b, a)

RMax(a, b) == IF RLess(a, b) THEN b ELSE a
RMin(a, b) == IF RLess(b, a) THEN b ELSE a

\* x ** k for a natural k
RECURSIVE RPow(_, _)
RPow(x, k) == IF k = 0 THEN One ELSE RMul(x, RPow(x, k - 1))

\* sum(d.values()) of a dict of floats
RECURSIVE RSumOver(_, _)
RSumOver(d, S) ==
    IF S = {} THEN Zero
    ELSE LET k == CHOOSE x \in S : TRUE
         IN  RAdd(d[k], RSumOver(d, S \ {k}))

RSum(d) == RSumOver(d, DOMAIN d)

----------------------------------------------------------------------------
(* Model quality policy (validator.py, _load_model_policy and               *)
(* apply_model_quality_multiplier)                                          *)

Half == <<1, 2>>
DefaultMinQuality == <<3, 5>>

\* declared model names and the policy's name fragments, as character strings
NameGpt == <<"g", "p", "t">>
NameQwen == <<"q", "w", "n">>
NameLlama == <<"l", "m">>
NameQwenGpt == <<"q", "w", "g", "p">>
NameUnknown == <<"u", "n", "k", "n", "o", "w", "n">>
FragGp == <<"g", "p">>
FragQw == <<"q", "w">>

\* the policy returned when the YAML file cannot be read
DefaultPolicy ==
    [quality_policy |->
        [min_quality_score |-> DefaultMinQuality,
         mode_multipliers |->
            [local |-> One, vllm |-> One, custom |-> One, api |-> One,
             unknown |-> One],
         recommended_models |-> <<>>,
         blacklisted_models |-> <<>>,
         penalties |-> [no_model_info |-> One]]]

\* a policy file rewarding self-hosted models, with a bonus and a blacklist
LocalFirstPolicy ==
    [quality_policy |->
        [min_quality_score |-> DefaultMinQuality,
         mode_multipliers |->
            [local |-> <<6, 5>>, vllm |-> <<6, 5>>, custom |-> One,
             api |-> <<4, 5>>],
         recommended_models |-> << [name |-> FragQw, bonus |-> <<11, 10>>] >>,
         blacklisted_models |-> << FragGp >>,
         penalties |-> [no_model_info |-> Half]]]

\* a policy file that leaves every optional key out but the blacklist
SparsePolicy ==
    [quality_policy |-> [blacklisted_models |-> << FragGp >>]]

Policies == {DefaultPolicy, LocalFirstPolicy, SparsePolicy}

\* response.model_info values
ModelInfos ==
    { EmptyDict,
      [mode |-> "unknown", name |-> NameGpt],
      [mode |-> "unknown", name |-> NameLlama],
      [mode |-> "local", name |-> NameLlama],
      [mode |-> "local", name |-> NameGpt],
      [mode |-> "api", name |-> NameQwen],
      [mode |-> "vllm", name |-> NameQwenGpt],
      [mode |-> "mock", name |-> NameQwen],
      [name |-> NameGpt],
      [provider |-> "acme"] }

\* as AnyBlacklisted, matching whole names instead of substrings
AnyBlacklistedExact(bl, model_name) ==
    \E i \in 1 .. Len(bl) : bl[i] = model_name

\* any(blacklisted in model_name for blacklisted in blacklist)
AnyBlacklisted(bl, model_name) ==
    \E i \in 1 .. Len(bl) : Contains(bl[i], model_name)

\* index of the first recommended model whose name is in model_name, or 0
RECURSIVE FirstRecommended(_, _, _)
FirstRecommended(recs, i, model_name) ==
    IF i > Len(recs) THEN 0
    ELSE IF Contains(recs[i]["name"], model_name) THEN i
    ELSE FirstRecommended(recs, i + 1, model_name)

\* as NoModelInfo, testing only `not model_info`
NoModelInfoEmptyOnly(model_info) ==
    DOMAIN model_info = {}

\* as BelowMinQuality, comparing the 0-100 score with the 0-1 threshold
BelowMinQualityUnscaled(base_score, min_quality) ==
    RLess(base_score, min_quality)

\* `normalized_score < min_quality` with normalized_score = base_score / 100.0
BelowMinQuality(base_score, min_quality) ==
    RLess(RDiv(base_score, R(100)), min_quality)

\* `not model_info or model_info.get("mode") == "unknown"`
NoModelInfo(model_info) ==
    \/ DOMAIN model_info = {}
    \/ DictGet(model_info, "mode", None) = "unknown"

apply_model_quality_multiplier(base_score, model_info, policy_root) ==
    LET policy == DictGet(policy_root, "quality_policy", EmptyDict)
        multiplier_info == [mode_multiplier |-> One, model_bonus |-> One,
                            penalty |-> One, final_multiplier |-> One]
    IN  IF NoModelInfo(model_info)
        THEN LET penalty == DictGet(DictGet(policy, "penalties", EmptyDict),
                                    "no_model_info", Half)
             IN  [score |-> RMul(base_score, penalty),
                  info |-> [multiplier_info EXCEPT !.penalty = penalty,
                                                   !.final_multiplier = penalty]]
        ELSE
        LET mode == DictGet(model_info, "mode", "unknown")
            model_name == DictGet(model_info, "name", NameUnknown)
            mode_mult == DictGet(DictGet(policy, "mode_multipliers", EmptyDict),
                                 mode, One)
            info1 == [multiplier_info EXCEPT !.mode_multiplier = mode_mult]
            bl == DictGet(policy, "blacklisted_models", <<>>)
            recs == DictGet(policy, "recommended_models", <<>>)
            r == FirstRecommended(recs, 1, model_name)
            model_bonus == IF r = 0 THEN One ELSE DictGet(recs[r], "bonus", One)
            info2 == IF r = 0 THEN info1
                     ELSE [info1 EXCEPT !.model_bonus = model_bonus]
            final_multiplier == RMul(mode_mult, model_bonus)
            info3 == [info2 EXCEPT !.final_multiplier = final_multiplier]
            min_quality == DictGet(policy, "min_quality_score", DefaultMinQuality)
        IN  IF AnyBlacklisted(bl, model_name)
            THEN [score |-> Zero, info |-> info1]
            ELSE IF BelowMinQuality(base_score, min_quality)
            THEN [score |-> Zero, info |-> info3]
            ELSE [score |-> RMul(base_score, final_multiplier), info |-> info3]

----------------------------------------------------------------------------
(* score_response (validator.py) and the content scorer it calls            *)

\* calculate_originality as score_response calls it: the history it is given
\* holds the entries' output_data mappings, and the duplicate check calls
\* .encode() on the first of them, which a mapping does not have
calculate_originality(data, hist_window) ==
    IF Len(hist_window) = 0
    THEN [raised |-> FALSE, value |-> R(5)]
    ELSE [raised |-> TRUE, value |-> Zero]

\* calculate_content_score: relevance + fluency (rf) + originality, capped at 30
calculate_content_score(rf, data, hist_window) ==
    LET originality == IF Len(hist_window) > 0
                       THEN calculate_originality(data, hist_window)
                       ELSE [raised |-> FALSE, value |-> R(5)]
    IN  IF originality.raised
        THEN [raised |-> TRUE, value |-> Zero]
        ELSE [raised |-> FALSE, value |-> RMin(RAdd(rf, originality.value), R(30))]

\* list(d)[-n:]
LastN(s, n) == IF Len(s) <= n THEN s ELSE SubSeq(s, Len(s) - n + 1, Len(s))

ORIGINALITY_WINDOW == 20

\* output_data None and the empty mapping {}; `not data` holds of both
NoData == "None"
EmptyData == "{}"
Falsy(data) == data = NoData \/ data = EmptyData

\* sub: the raw outputs of the technical, structure, relevance+fluency and
\* narrative scorers for this response
score_response(data, model_info, sub, hist, policy_root) ==
    IF Falsy(data)
    THEN [raised |-> FALSE, score |-> Zero, base_score |-> Zero, scored |-> FALSE]
    ELSE
    LET tech_score == RMul(R(sub.tech), <<20, 30>>)
        struct_score == RMul(R(sub.struct), <<30, 40>>)
        win == LastN(hist, ORIGINALITY_WINDOW)
        content == calculate_content_score(
                       R(sub.rf), data,
                       [i \in 1 .. Len(win) |-> win[i].output_data])
        content_score == RMul(content.value, <<20, 30>>)
        narrative_score == R(sub.narr)
        base_score == RAdd(RAdd(tech_score, struct_score),
                           RAdd(content_score, narrative_score))
        adjusted == apply_model_quality_multiplier(base_score, model_info,
                                                   policy_root)
    IN  IF content.raised
        THEN [raised |-> TRUE, score |-> Zero, base_score |-> Zero,
              scored |-> FALSE]
        ELSE [raised |-> FALSE, score |-> adjusted.score,
              base_score |-> base_score, scored |-> TRUE,
              model_quality |-> adjusted.info]

\* raw scorer outputs: technical 0..30, structure 0..40, relevance+fluency
\* 0..25, narrative 0..30
SubScores ==
    [tech : {0, 15, 30}, struct : {0, 40}, rf : {0, 25}, narr : {0, 10, 30}]

----------------------------------------------------------------------------
(* output_data values: the mappings the miners return, and for each its     *)
(* canonical serialization json.dumps(data, sort_keys=True) as a string of  *)
(* characters (numbers). A's has 11 bigrams, C's the first 10 of them, E's  *)
(* shares none with them.                                                   *)

DataA == "A"
DataC == "C"
DataE == "E"
DataPool == {DataA, DataC, DataE, EmptyData}

Serialize(data) ==
    CASE data = DataA -> [i \in 1 .. 12 |-> i]
      [] data = DataC -> [i \in 1 .. 11 |-> i]
      [] data = DataE -> <<50, 51, 52, 53>>
      [] data = EmptyData -> <<40, 41>>

----------------------------------------------------------------------------
(* SpecScore: score_response on one response of a fresh validator           *)

\* the variables of the other specifications, which this one leaves alone
StructIdle ==
    /\ struct_in = <<>>
    /\ struct_out = <<>>

CacheIdle ==
    /\ judge_config = <<>>
    /\ judge_cache = <<>>
    /\ judge_clock = 0
    /\ judge_log = <<>>

AuxIdle ==
    /\ tech_in = <<>>
    /\ tech_out = <<>>
    /\ narr_in = <<>>
    /\ narr_out = <<>>
    /\ ema_in = <<>>
    /\ ema_n = 0
    /\ StructIdle
    /\ CacheIdle

WeightsIdle ==
    /\ weights = <<>>
    /\ historical_avgs = <<>>

\* the coroutine is in run()'s loop, about to call run_step
TaskIdle ==
    /\ task_pc = "run"
    /\ settled = {}
    /\ in_flight = <<>>

StepIdle ==
    /\ TaskIdle
    /\ selected_uids = <<>>
    /\ responses = <<>>
    /\ new_scores = EmptyDict
    /\ flags = EmptyDict
    /\ raised = NoUid
    /\ ema_updated = FALSE
    /\ steps = 0

FreshValidator ==
    /\ scores = EmptyDict
    /\ history = <<>>
    /\ blacklist = {}
    /\ violations = EmptyDict
    /\ total_queries = 0

\* the validator before any step, or after a first step in which peer 0
\* answered with an empty mapping and every other peer with nothing
ScoredOnceValidator ==
    /\ scores = [u \in Peers |-> Zero]
    /\ history = << [uid |-> 0, output_data |-> EmptyData, score |-> Zero] >>
    /\ blacklist = {}
    /\ violations = EmptyDict
    /\ total_queries = 1

InitScore ==
    /\ (FreshValidator \/ ScoredOnceValidator)
    /\ StepIdle
    /\ model_policy \in Policies
    /\ axons = [u \in Peers |-> TRUE]
    /\ stake = [u \in Peers |-> 1]
    /\ in_sub \in SubScores
    /\ in_data \in {EmptyData, DataA}
    /\ in_model_info \in ModelInfos
    /\ out_score = <<>>
    /\ WeightsIdle
    /\ AuxIdle

ScoreResponse ==
    /\ out_score = <<>>
    /\ out_score' = << score_response(in_data, in_model_info, in_sub, history,
                                      model_policy) >>
    /\ UNCHANGED <<validatorVars, stepVars, in_sub, in_data, in_model_info,
                   weightVars, auxVars>>

NextScore == ScoreResponse

SpecScore == InitScore /\ [][NextScore]_vars

----------------------------------------------------------------------------
(* calculate_weights (validator.py) and normalize_weights (template/utils)  *)

HISTORY_AVG_WINDOW == 50
TEMPERATURE == 2
MIN_WEIGHT == <<1, 1000>>

\* normalize_weights: w / total, or equal weights when the total is 0
normalize_weights(w) ==
    LET total == RSum(w)
        n == Cardinality(DOMAIN w)
    IN  IF total = Zero
        THEN [uid \in DOMAIN w |-> <<1, n>>]
        ELSE [uid \in DOMAIN w |-> RDiv(w[uid], total)]

\* as ApplyMinWeight, leaving the weights as they are
ApplyNoMinWeight(w) == w

\* {uid: max(w, min_weight)}
ApplyMinWeight(w) == [uid \in DOMAIN w |-> RMax(w[uid], MIN_WEIGHT)]

\* as FloorAndRenormalize, without the second normalization
FloorWithoutRenormalize(w) == ApplyMinWeight(w)

\* the minimum weight, then the second normalization
FloorAndRenormalize(w) == normalize_weights(ApplyMinWeight(w))

\* stake / max_stake of a uid; 0.0 when the stake cannot be read
StakeWeight(S, uid) ==
    IF uid \notin DOMAIN S THEN Zero
    ELSE LET max_stake == CHOOSE m \in {S[u] : u \in DOMAIN S} :
                              \A u \in DOMAIN S : S[u] <= m
         IN  IF max_stake > 0 THEN Rat(S[uid], max_stake) ELSE Zero

\* [h["score"] for h in list(self.history)[-50:] if h.get("uid") == uid]
HistoricalScores(hist, uid) ==
    LET win == LastN(hist, HISTORY_AVG_WINDOW)
    IN  SelectSeq(win, LAMBDA h : h.uid = uid)

\* sum of the scores of sq[lo .. hi], added by halves
RECURSIVE RSumRange(_, _, _)
RSumRange(sq, lo, hi) ==
    IF lo > hi THEN Zero
    ELSE IF lo = hi THEN sq[lo].score
    ELSE LET mid == (lo + hi) \div 2
         IN  RAdd(RSumRange(sq, lo, mid), RSumRange(sq, mid + 1, hi))

\* sum(historical_scores), from the i-th on
RSumSeq(sq, i) == RSumRange(sq, i, Len(sq))

HistoricalAvg(hist, uid, quality_score) ==
    LET hs == HistoricalScores(hist, uid)
    IN  IF Len(hs) > 0 THEN RDiv(RSumSeq(hs, 1), R(Len(hs))) ELSE quality_score

\* 15% stake + 75% quality + 10% history
CompositeScore(ema, hist, S, uid) ==
    LET stake_weight == StakeWeight(S, uid)
        historical_score == RDiv(HistoricalAvg(hist, uid, ema[uid]), R(100))
        normalized_quality == RDiv(ema[uid], R(100))
    IN  RAdd(RAdd(RMul(<<15, 100>>, stake_weight),
                  RMul(<<75, 100>>, normalized_quality)),
             RMul(<<10, 100>>, historical_score))

calculate_weights(ema, hist, S) ==
    IF DOMAIN ema = {} THEN EmptyDict
    ELSE LET incentives == [uid \in DOMAIN ema |->
                               RPow(CompositeScore(ema, hist, S, uid), TEMPERATURE)]
         IN  FloorAndRenormalize(normalize_weights(incentives))

----------------------------------------------------------------------------
(* SpecWeights: calculate_weights on EMA scores, history and stakes drawn   *)
(* from bounded sets                                                        *)

\* history entries considered for the historical average
MaxWeightHistory == 2

EmaValues == {R(0), R(60), R(100)}
EmaMaps == UNION {[P -> EmaValues] : P \in SUBSET Peers}
WeightHistoryEntries ==
    [uid : {0, 1}, output_data : {DataE}, score : {R(0), R(100)}]
\* the history after peer 0 was scored once and peer 1 then answered a whole
\* averaging window of steps with an empty mapping
CrowdedHistory ==
    << [uid |-> 0, output_data |-> DataE, score |-> R(100)] >>
    \o [i \in 1 .. HISTORY_AVG_WINDOW |->
           [uid |-> 1, output_data |-> EmptyData, score |-> Zero]]

WeightHistories ==
    UNION {[1 .. n -> WeightHistoryEntries] : n \in 0 .. MaxWeightHistory}
    \cup {CrowdedHistory}

InitWeights ==
    /\ scores \in EmaMaps
    /\ history \in WeightHistories
    /\ stake \in {[u \in Peers |-> 0], [u \in Peers |-> 1], [u \in Peers |-> u % 2]}
    /\ blacklist = {}
    /\ violations = EmptyDict
    /\ total_queries = 0
    /\ model_policy = DefaultPolicy
    /\ axons = [u \in Peers |-> TRUE]
    /\ StepIdle
    /\ in_sub = [tech |-> 0, struct |-> 0, rf |-> 0, narr |-> 0]
    /\ in_data = EmptyData
    /\ in_model_info = EmptyDict
    /\ out_score = <<>>
    /\ WeightsIdle
    /\ AuxIdle

CalculateWeights ==
    /\ weights = <<>>
    /\ weights' = << calculate_weights(scores, history, stake) >>
    /\ historical_avgs' =
          << [uid \in DOMAIN scores |-> HistoricalAvg(history, uid, scores[uid])] >>
    /\ UNCHANGED <<validatorVars, stepVars, scoreVars, auxVars>>

NextWeights == CalculateWeights

SpecWeights == InitWeights /\ [][NextWeights]_vars


----------------------------------------------------------------------------
(* Plagiarism detection (validator.py)                                      *)

HISTORY_MAXLEN == 1000
PLAGIARISM_WINDOW == 50
MAX_VIOLATIONS == 3
CROSS_MINER_THRESHOLD == <<95, 100>>
TEMPLATE_THRESHOLD == <<90, 100>>

\* set(s[i:i+2] for i in range(len(s) - 1))
get_bigrams(str) == {<<str[i], str[i + 1]>> : i \in 1 .. (Len(str) - 1)}

\* bigram Jaccard similarity of two canonical serializations
BigramJaccard(str1, str2) ==
    LET bigrams1 == get_bigrams(str1)
        bigrams2 == get_bigrams(str2)
        intersection == Cardinality(bigrams1 \cap bigrams2)
        union == Cardinality(bigrams1 \cup bigrams2)
    IN  IF bigrams1 = {} \/ bigrams2 = {} THEN Zero
        ELSE IF union > 0 THEN Rat(intersection, union) ELSE Zero

\* the similarities of the output_data values of the model, computed once
SimilarityTable ==
    [p \in DataPool \X DataPool |-> BigramJaccard(Serialize(p[1]), Serialize(p[2]))]

calculate_similarity(data1, data2) == SimilarityTable[<<data1, data2>>]

\* hasattr(x, 'output_data'): a synapse has the attribute, a mapping or None has not
HasOutputData(x) == x.form = "synapse"

\* the other responses of the batch a response is compared with
Comparable(other, response) ==
    /\ other # response
    /\ HasOutputData(other)
    /\ ~Falsy(other.output_data)

\* least element of a non-empty set of indices
MinOf(S) == CHOOSE m \in S : \A x \in S : m <= x

detect_plagiarism(response, all_responses, hist) ==
    LET current_data == response.output_data
        cross == {i \in 1 .. Len(all_responses) :
                     /\ Comparable(all_responses[i], response)
                     /\ RLess(CROSS_MINER_THRESHOLD,
                              calculate_similarity(current_data,
                                                   all_responses[i].output_data))}
        win == LastN(hist, PLAGIARISM_WINDOW)
        reuse == {i \in 1 .. Len(win) :
                     /\ ~Falsy(win[i].output_data)
                     /\ RLess(TEMPLATE_THRESHOLD,
                              calculate_similarity(current_data, win[i].output_data))}
    IN  IF Falsy(current_data)
        THEN [is_plagiarism |-> FALSE, type |-> "", similarity |-> Zero]
        ELSE IF cross # {}
        THEN [is_plagiarism |-> TRUE, type |-> "cross_miner_copy",
              similarity |-> calculate_similarity(
                                 current_data, all_responses[MinOf(cross)].output_data)]
        ELSE IF reuse # {}
        THEN [is_plagiarism |-> TRUE, type |-> "template_reuse",
              similarity |-> calculate_similarity(current_data,
                                                  win[MinOf(reuse)].output_data)]
        ELSE [is_plagiarism |-> FALSE, type |-> "original", similarity |-> Zero]

----------------------------------------------------------------------------
(* Reputation tracker: update_ema_scores, exponential_moving_average        *)

EMA_ALPHA == <<1, 10>>

\* as exponential_moving_average, with the old value not discounted
exponential_moving_average_undiscounted(new_value, old_value, alpha) ==
    RAdd(RMul(alpha, new_value), old_value)

\* as exponential_moving_average, with the two weights exchanged
exponential_moving_average_swapped(new_value, old_value, alpha) ==
    RAdd(RMul(alpha, old_value), RMul(RAdd(One, <<-alpha[1], alpha[2]>>), new_value))

exponential_moving_average(new_value, old_value, alpha) ==
    RAdd(RMul(alpha, new_value), RMul(RAdd(One, <<-alpha[1], alpha[2]>>), old_value))

\* update_ema_scores of a validator whose self.ema_alpha is ema_alpha
update_ema_scores_with(ema, step_scores, ema_alpha) ==
    [uid \in (DOMAIN ema) \cup (DOMAIN step_scores) |->
        IF uid \notin DOMAIN step_scores THEN ema[uid]
        ELSE IF uid \notin DOMAIN ema THEN step_scores[uid]
        ELSE exponential_moving_average(step_scores[uid], ema[uid], ema_alpha)]

\* update_ema_scores with the default EMA_ALPHA
update_ema_scores(ema, step_scores) ==
    update_ema_scores_with(ema, step_scores, EMA_ALPHA)

----------------------------------------------------------------------------
(* run_step (validator.py)                                                  *)

MAX_MINERS_PER_STEP == 10

\* the raw scorer outputs carried by the responses of the validation steps
GoodSub == [tech |-> 30, struct |-> 40, rf |-> 25, narr |-> 30]
PoorSub == [tech |-> 15, struct |-> 0, rf |-> 0, narr |-> 10]
LocalLlama == [mode |-> "local", name |-> NameLlama]

\* what dendrite.forward can hand back for the miner with uid u: None, a
\* synapse (without output, with an empty one, or with generated content), or
\* a plain mapping
ResponseOf(u, k) ==
    CASE k = 1 -> [form |-> "none", output_data |-> NoData,
                   model_info |-> EmptyDict, sub |-> PoorSub, axon |-> NoUid]
      [] k = 2 -> [form |-> "synapse", output_data |-> NoData,
                   model_info |-> EmptyDict, sub |-> PoorSub, axon |-> u]
      [] k = 3 -> [form |-> "synapse", output_data |-> EmptyData,
                   model_info |-> EmptyDict, sub |-> PoorSub, axon |-> u]
      [] k = 4 -> [form |-> "synapse", output_data |-> DataA,
                   model_info |-> LocalLlama, sub |-> GoodSub, axon |-> u]
      [] k = 5 -> [form |-> "synapse", output_data |-> DataC,
                   model_info |-> EmptyDict, sub |-> PoorSub, axon |-> u]
      [] k = 6 -> [form |-> "synapse", output_data |-> DataE,
                   model_info |-> EmptyDict, sub |-> GoodSub, axon |-> u]
      [] OTHER -> [form |-> "dict", output_data |-> DataA,
                   model_info |-> LocalLlama, sub |-> GoodSub, axon |-> NoUid]

ResponseKinds == 1 .. 7

\* the mapping response rebuilt as a StoryGenerationSynapse
AsSynapse(raw) ==
    IF raw.form = "dict" THEN [raw EXCEPT !.form = "synapse"] ELSE raw

\* as DequeAppend, a full deque dropping its newest entry
DequeAppendEvictNewest(dq, e) ==
    IF Len(dq) >= HISTORY_MAXLEN THEN Append(SubSeq(dq, 1, Len(dq) - 1), e)
    ELSE Append(dq, e)

\* deque.append with maxlen
DequeAppend(dq, e) ==
    IF Len(dq) >= HISTORY_MAXLEN THEN Append(Tail(dq), e) ELSE Append(dq, e)

\* as RecordViolation, blacklisting only on exactly the third violation's successor
RecordViolationLate(st, uid) ==
    LET n == DictGet(st.violations, uid, 0) + 1
    IN  [st EXCEPT !.violations = DictSet(st.violations, uid, n),
                   !.blacklist = IF n > MAX_VIOLATIONS THEN @ \cup {uid} ELSE @]

\* self.violations[uid] += 1, and the blacklist at 3 violations
RecordViolation(st, uid) ==
    LET n == DictGet(st.violations, uid, 0) + 1
    IN  [st EXCEPT !.violations = DictSet(st.violations, uid, n),
                   !.blacklist = IF n >= MAX_VIOLATIONS THEN @ \cup {uid} ELSE @]

\* as FlaggedScore, keeping what the scorers give the flagged response
FlaggedScoreKept(scored) == scored.score

\* scores[uid] = 0.0 for a flagged response
FlaggedScore(scored) == Zero

\* one iteration of the scoring loop; st holds the state the loop works on
ScoreOne(st, uid, raw, all_responses, policy_root) ==
    IF raw.form = "none"
    THEN [st EXCEPT !.new_scores = DictSet(@, uid, Zero)]
    ELSE
    LET response == AsSynapse(raw)
        plag == detect_plagiarism(response, all_responses, st.history)
        scored == score_response(response.output_data, response.model_info,
                                 response.sub, st.history, policy_root)
    IN  IF response.output_data = NoData
        THEN [st EXCEPT !.new_scores = DictSet(@, uid, Zero)]
        ELSE IF plag.is_plagiarism
        THEN [RecordViolation(st, uid) EXCEPT
                  !.new_scores = DictSet(@, uid, FlaggedScore(scored)),
                  !.flags = DictSet(@, uid, plag.type)]
        ELSE IF scored.raised
        THEN [st EXCEPT !.raised = uid]
        ELSE [st EXCEPT !.new_scores = DictSet(@, uid, scored.score),
                        !.history = DequeAppend(@, [uid |-> uid,
                                                     output_data |-> response.output_data,
                                                     score |-> scored.score])]

\* for uid, response, axon in zip(selected_uids, responses, selected_axons);
\* an exception leaves the loop
RECURSIVE ScoreLoop(_, _, _, _, _)
ScoreLoop(st, i, uids, resps, policy_root) ==
    IF i > Len(uids) \/ st.raised # NoUid THEN st
    ELSE ScoreLoop(ScoreOne(st, uids[i], resps[i], resps, policy_root),
                   i + 1, uids, resps, policy_root)

\* self.scores.get(uid, 0)
EmaOf(ema, uid) == DictGet(ema, uid, Zero)

\* as AvailableMiners, without the blacklist filter
AvailableMinersAll(ax, bl) == {i \in DOMAIN ax : ax[i]}

\* miners that are not blacklisted and whose axon is valid
AvailableMiners(ax, bl) == {i \in DOMAIN ax : i \notin bl /\ ax[i]}

\* sorted(available, key=score, reverse=True): stable, so equal scores keep
\* the order of the uids
RECURSIVE SortedMiners(_, _)
SortedMiners(avail, ema) ==
    IF avail = {} THEN <<>>
    ELSE LET best == CHOOSE u \in avail :
                        \A v \in avail \ {u} :
                            \/ RLess(EmaOf(ema, v), EmaOf(ema, u))
                            \/ (EmaOf(ema, v) = EmaOf(ema, u) /\ u < v)
         IN  <<best>> \o SortedMiners(avail \ {best}, ema)

Min(a, b) == IF a < b THEN a ELSE b

\* int(num_miners * 0.7)
TopK(num_miners) == (num_miners * 7) \div 10

\* as Selections, the miners left in the order of the metagraph
SelectionsUnsorted(avail, ema) ==
    LET sorted_miners == SortedMiners(avail, EmptyDict)
        num_miners == Min(MAX_MINERS_PER_STEP, Len(sorted_miners))
        top_k == TopK(num_miners)
        explore_k == num_miners - top_k
        rest == {sorted_miners[i] : i \in (top_k + 1) .. Len(sorted_miners)}
        k == Min(explore_k, Len(sorted_miners) - top_k)
        samples == {sq \in [1 .. k -> rest] :
                       \A i, j \in 1 .. k : i # j => sq[i] # sq[j]}
    IN  {SubSeq(sorted_miners, 1, top_k) \o sq : sq \in samples}

\* the selections run_step can make: the top 70% in order, then a random
\* sample of the rest
Selections(avail, ema) ==
    LET sorted_miners == SortedMiners(avail, ema)
        num_miners == Min(MAX_MINERS_PER_STEP, Len(sorted_miners))
        top_k == TopK(num_miners)
        explore_k == num_miners - top_k
        rest == {sorted_miners[i] : i \in (top_k + 1) .. Len(sorted_miners)}
        k == Min(explore_k, Len(sorted_miners) - top_k)
        samples == {sq \in [1 .. k -> rest] :
                       \A i, j \in 1 .. k : i # j => sq[i] # sq[j]}
    IN  {SubSeq(sorted_miners, 1, top_k) \o sq : sq \in samples}

InitValidator ==
    /\ FreshValidator
    /\ StepIdle
    /\ model_policy = LocalFirstPolicy
    /\ axons \in {[u \in Peers |-> TRUE], [u \in Peers |-> FALSE]}
    /\ stake = [u \in Peers |-> 1]
    /\ in_sub = [tech |-> 0, struct |-> 0, rf |-> 0, narr |-> 0]
    /\ in_data = EmptyData
    /\ in_model_info = EmptyDict
    /\ out_score = <<>>
    /\ WeightsIdle
    /\ AuxIdle

\* run_step when no miner is available: it sleeps and returns
RunStepNoMiners ==
    /\ steps < MaxSteps
    /\ AvailableMiners(axons, blacklist) = {}
    /\ steps' = steps + 1
    /\ selected_uids' = <<>>
    /\ new_scores' = EmptyDict
    /\ flags' = EmptyDict
    /\ raised' = NoUid
    /\ responses' = <<>>
    /\ ema_updated' = FALSE
    /\ UNCHANGED <<validatorVars, scoreVars, weightVars, auxVars, taskVars>>

\* run_step: select, query, score every response, update the EMA scores; an
\* exception anywhere ends the step in its handler.  kindset holds the kinds
\* of response the query can bring back.
RunStepWith(kindset) ==
    /\ steps < MaxSteps
    /\ AvailableMiners(axons, blacklist) # {}
    /\ \E uids \in Selections(AvailableMiners(axons, blacklist), scores) :
       \E kinds \in [1 .. Len(uids) -> kindset] :
       \E st \in {ScoreLoop([violations |-> violations, blacklist |-> blacklist,
                             history |-> history, new_scores |-> EmptyDict,
                             flags |-> EmptyDict, raised |-> NoUid],
                            1, uids,
                            [i \in 1 .. Len(uids) |-> ResponseOf(uids[i], kinds[i])],
                            model_policy)} :
          /\ selected_uids' = uids
          /\ responses' = [i \in 1 .. Len(uids) |-> ResponseOf(uids[i], kinds[i])]
          /\ violations' = st.violations
          /\ blacklist' = st.blacklist
          /\ history' = st.history
          /\ new_scores' = st.new_scores
          /\ flags' = st.flags
          /\ raised' = st.raised
          /\ IF st.raised = NoUid
             THEN /\ scores' = update_ema_scores(scores, st.new_scores)
                  /\ total_queries' = total_queries + 1
                  /\ ema_updated' = TRUE
             ELSE /\ UNCHANGED <<scores, total_queries>>
                  /\ ema_updated' = FALSE
    /\ steps' = steps + 1
    /\ UNCHANGED <<model_policy, axons, stake, scoreVars, weightVars, auxVars,
                   taskVars>>

RunStep == RunStepWith(ResponseKinds)

Next == RunStep \/ RunStepNoMiners

Spec == InitValidator /\ [][Next]_vars

----------------------------------------------------------------------------
(* The selection of run_step on a larger metagraph (SpecSelect)             *)

MaxSelectPeers == 13
MaxSelectSteps == 1

SelectPeerIds == 0 .. (MaxSelectPeers - 1)

MAX_PORT == 65535

\* bt.AxonInfo by the fields _is_axon_valid reads
AxonInfo(ip, port, hotkey) == [ip |-> ip, port |-> port, hotkey |-> hotkey]

ServingAxon == AxonInfo("10.0.0.1", 8091, "5F")

\* the axons _is_axon_valid turns down
BrokenAxons ==
    << AxonInfo("", 8091, "5F"), AxonInfo("0.0.0.0", 8091, "5F"),
       AxonInfo("10.0.0.1", 0, "5F"), AxonInfo("10.0.0.1", MAX_PORT + 1, "5F"),
       AxonInfo("10.0.0.1", 8091, "") >>

is_axon_valid(axon) ==
    IF axon.ip = "" THEN FALSE
    ELSE IF axon.ip = "0.0.0.0" THEN FALSE
    ELSE IF axon.port <= 0 \/ axon.port > MAX_PORT THEN FALSE
    ELSE IF axon.hotkey = "" THEN FALSE
    ELSE TRUE

\* the metagraph's axons, those of the peers in broken being unusable
Metagraph(broken) ==
    [u \in SelectPeerIds |->
        IF u \in broken THEN BrokenAxons[(u % Len(BrokenAxons)) + 1]
        ELSE ServingAxon]

\* the score of the one response a validator scores above 0 before the
\* history is non-empty
FirstScore == R(120)

\* validators after some steps: peers with unusable axons, peers blacklisted
\* after three flagged responses, at most one peer scored above 0
InitSelect ==
    /\ \E broken \in {{}, {2}, {0, 5, 7, 9, 11}, 3 .. (MaxSelectPeers - 1),
                      SelectPeerIds} :
          axons = [u \in SelectPeerIds |-> is_axon_valid(Metagraph(broken)[u])]
    /\ \E banned \in {{}, {1}, {1, 4}} :
          /\ blacklist = banned
          /\ violations = [u \in banned |-> MAX_VIOLATIONS]
    /\ \/ /\ scores = EmptyDict
          /\ history = <<>>
          /\ total_queries = 0
       \/ /\ scores = [u \in SelectPeerIds |-> Zero]
          /\ history = <<>>
          /\ total_queries = 1
       \/ \E best \in {0, 6, MaxSelectPeers - 1} :
             /\ scores \in {[u \in SelectPeerIds |->
                                IF u = best THEN FirstScore ELSE Zero],
                            [u \in {best} |-> FirstScore]}
             /\ history = << [uid |-> best, output_data |-> DataA,
                              score |-> FirstScore] >>
             /\ total_queries = 1
    /\ StepIdle
    /\ model_policy = LocalFirstPolicy
    /\ stake = [u \in SelectPeerIds |-> 1]
    /\ in_sub = [tech |-> 0, struct |-> 0, rf |-> 0, narr |-> 0]
    /\ in_data = EmptyData
    /\ in_model_info = EmptyDict
    /\ out_score = <<>>
    /\ WeightsIdle
    /\ AuxIdle

\* run_step when the query fails: query_miners hands back the request
\* synapse, without output, for every miner
RunStepUnanswered ==
    /\ steps < MaxSelectSteps
    /\ RunStepWith({2})

NextSelect == RunStepUnanswered \/ RunStepNoMiners

SpecSelect == InitSelect /\ [][NextSelect]_vars

----------------------------------------------------------------------------
(* Validation steps up to the weight update of the shutdown                 *)
(* (SpecReputation): run() sets the weights once more when it is            *)
(* interrupted, whatever the state the steps have left                      *)

MaxReputationSteps == 2

\* a validator after two steps in which both peers answered with the same
\* content: both flagged twice, both scored 0, nothing in the history
TwoStrikesValidator ==
    /\ scores = [u \in Peers |-> Zero]
    /\ history = <<>>
    /\ blacklist = {}
    /\ violations = [u \in Peers |-> MAX_VIOLATIONS - 1]
    /\ total_queries = 2

InitReputation ==
    /\ FreshValidator \/ TwoStrikesValidator
    /\ StepIdle
    /\ model_policy = LocalFirstPolicy
    /\ axons = [u \in Peers |-> TRUE]
    /\ stake \in {[u \in Peers |-> 0], [u \in Peers |-> 1], [u \in Peers |-> u % 2]}
    /\ in_sub = [tech |-> 0, struct |-> 0, rf |-> 0, narr |-> 0]
    /\ in_data = EmptyData
    /\ in_model_info = EmptyDict
    /\ out_score = <<>>
    /\ WeightsIdle
    /\ AuxIdle

\* a validation step of the running validator
StepBeforeShutdown ==
    /\ weights = <<>>
    /\ steps < MaxReputationSteps
    /\ RunStep

\* a validation step of the running validator that finds no miner
IdleStepBeforeShutdown ==
    /\ weights = <<>>
    /\ steps < MaxReputationSteps
    /\ RunStepNoMiners

\* except KeyboardInterrupt: await self.set_weights()
ShutdownWeights == CalculateWeights

NextReputation ==
    \/ StepBeforeShutdown
    \/ IdleStepBeforeShutdown
    \/ ShutdownWeights

SpecReputation == InitReputation /\ [][NextReputation]_vars

----------------------------------------------------------------------------
(* run and run_step, one statement group at a time (SpecTask)              *)
(*                                                                          *)
(* The validator is one coroutine: main() runs asyncio.run(validator.run()) *)
(* and nothing creates a second task or a thread.  run() awaits run_step()  *)
(* and then asyncio.sleep; run_step awaits query_miners, asyncio.sleep when *)
(* no miner is available, and set_weights after the EMA update.  The        *)
(* scoring loop holds no await: detect_plagiarism and score_response are    *)
(* plain calls.  task_pc is the coroutine's position: "run" (in run()'s     *)
(* loop, about to call run_step), "query" (suspended in await               *)
(* query_miners), "score" (in the scoring loop) and "sleep" (suspended in   *)
(* the awaits that end the round).                                          *)

MaxTaskSteps == 2

\* as MayCheck, the responses of a batch scored by concurrent tasks
MayCheckConcurrently(i, done, checking) ==
    i \notin done /\ i \notin DOMAIN checking

\* for uid, response, axon in zip(...): the loop turns to the next response
\* once the body has run for the one before
MayCheck(i, done, checking) ==
    checking = <<>> /\ i = Cardinality(done) + 1

\* the loop body after detect_plagiarism has returned plag
SettleOne(st, uid, response, plag, policy_root) ==
    LET scored == score_response(response.output_data, response.model_info,
                                 response.sub, st.history, policy_root)
    IN  IF plag.is_plagiarism
        THEN [RecordViolation(st, uid) EXCEPT
                  !.new_scores = DictSet(@, uid, FlaggedScore(scored)),
                  !.flags = DictSet(@, uid, plag.type)]
        ELSE IF scored.raised
        THEN [st EXCEPT !.raised = uid]
        ELSE [st EXCEPT !.new_scores = DictSet(@, uid, scored.score),
                        !.history = DequeAppend(@, [uid |-> uid,
                                                     output_data |-> response.output_data,
                                                     score |-> scored.score])]

\* run() calls run_step, which selects the miners and awaits query_miners
StartStep ==
    /\ task_pc = "run"
    /\ steps < MaxTaskSteps
    /\ AvailableMiners(axons, blacklist) # {}
    /\ \E uids \in Selections(AvailableMiners(axons, blacklist), scores) :
          selected_uids' = uids
    /\ responses' = <<>>
    /\ new_scores' = EmptyDict
    /\ flags' = EmptyDict
    /\ raised' = NoUid
    /\ ema_updated' = FALSE
    /\ steps' = steps + 1
    /\ task_pc' = "query"
    /\ settled' = {}
    /\ in_flight' = <<>>
    /\ UNCHANGED <<validatorVars, scoreVars, weightVars, auxVars>>

\* run() calls run_step, which finds no miner, sleeps and returns
StartStepNoMiners ==
    /\ task_pc = "run"
    /\ steps < MaxTaskSteps
    /\ AvailableMiners(axons, blacklist) = {}
    /\ selected_uids' = <<>>
    /\ responses' = <<>>
    /\ new_scores' = EmptyDict
    /\ flags' = EmptyDict
    /\ raised' = NoUid
    /\ ema_updated' = FALSE
    /\ steps' = steps + 1
    /\ task_pc' = "sleep"
    /\ settled' = {}
    /\ in_flight' = <<>>
    /\ UNCHANGED <<validatorVars, scoreVars, weightVars, auxVars>>

\* await self.query_miners(...) returns the batch
QueryReturns ==
    /\ task_pc = "query"
    /\ \E kinds \in [1 .. Len(selected_uids) -> ResponseKinds] :
          responses' = [i \in 1 .. Len(selected_uids) |->
                           ResponseOf(selected_uids[i], kinds[i])]
    /\ task_pc' = "score"
    /\ UNCHANGED <<validatorVars, selected_uids, new_scores, flags, raised,
                   ema_updated, steps, settled, in_flight, scoreVars,
                   weightVars, auxVars>>

\* a response that is None or carries no output: scores[uid] = 0.0, continue
SkipAbsent ==
    /\ task_pc = "score"
    /\ \E i \in 1 .. Len(responses) :
          /\ MayCheck(i, settled, in_flight)
          /\ AsSynapse(responses[i]).output_data = NoData
          /\ new_scores' = DictSet(new_scores, selected_uids[i], Zero)
          /\ settled' = settled \cup {i}
    /\ UNCHANGED <<validatorVars, selected_uids, responses, flags, raised,
                   ema_updated, steps, task_pc, in_flight, scoreVars,
                   weightVars, auxVars>>

\* self.detect_plagiarism(response, responses) for the response at i
CheckPlagiarism ==
    /\ task_pc = "score"
    /\ \E i \in 1 .. Len(responses) :
          /\ MayCheck(i, settled, in_flight)
          /\ AsSynapse(responses[i]).output_data # NoData
          /\ in_flight' =
                [j \in DOMAIN in_flight \cup {i} |->
                    IF j = i
                    THEN detect_plagiarism(AsSynapse(responses[i]), responses,
                                           history)
                    ELSE in_flight[j]]
    /\ UNCHANGED <<validatorVars, selected_uids, responses, new_scores, flags,
                   raised, ema_updated, steps, task_pc, settled, scoreVars,
                   weightVars, auxVars>>

\* the rest of the loop body for the response checked at i: the violation
\* and the blacklist, or score_response and the history append; an
\* exception leaves run_step through its handler
Settle ==
    /\ task_pc = "score"
    /\ \E i \in DOMAIN in_flight :
          LET st == SettleOne([violations |-> violations,
                               blacklist |-> blacklist,
                               history |-> history,
                               new_scores |-> new_scores,
                               flags |-> flags, raised |-> NoUid],
                              selected_uids[i], AsSynapse(responses[i]),
                              in_flight[i], model_policy)
          IN  /\ violations' = st.violations
              /\ blacklist' = st.blacklist
              /\ history' = st.history
              /\ new_scores' = st.new_scores
              /\ flags' = st.flags
              /\ raised' = st.raised
              /\ task_pc' = IF st.raised = NoUid THEN "score" ELSE "sleep"
              /\ settled' = settled \cup {i}
              /\ in_flight' = [j \in DOMAIN in_flight \ {i} |-> in_flight[j]]
    /\ UNCHANGED <<scores, total_queries, model_policy, axons, stake,
                   selected_uids, responses, ema_updated, steps, scoreVars,
                   weightVars, auxVars>>

\* after the loop: update_ema_scores, the statistics, set_weights
FinishStep ==
    /\ task_pc = "score"
    /\ in_flight = <<>>
    /\ settled = 1 .. Len(responses)
    /\ scores' = update_ema_scores(scores, new_scores)
    /\ total_queries' = total_queries + 1
    /\ ema_updated' = TRUE
    /\ task_pc' = "sleep"
    /\ UNCHANGED <<history, blacklist, violations, model_policy, axons, stake,
                   selected_uids, responses, new_scores, flags, raised, steps,
                   settled, in_flight, scoreVars, weightVars, auxVars>>

\* await asyncio.sleep(self.query_interval) returns to the top of run()'s loop
WakeUp ==
    /\ task_pc = "sleep"
    /\ task_pc' = "run"
    /\ UNCHANGED <<validatorVars, selected_uids, responses, new_scores, flags,
                   raised, ema_updated, steps, settled, in_flight, scoreVars,
                   weightVars, auxVars>>

NextTask ==
    \/ StartStep
    \/ StartStepNoMiners
    \/ QueryReturns
    \/ SkipAbsent
    \/ CheckPlagiarism
    \/ Settle
    \/ FinishStep
    \/ WakeUp

SpecTask == InitValidator /\ [][NextTask]_vars

----------------------------------------------------------------------------
(* Claims about score_response and the model quality policy (SpecScore)     *)

\* score_response returned a score computed by the four scorers and the policy
Scored == Len(out_score) = 1 /\ out_score[1].scored

PolicyOf(root) == DictGet(root, "quality_policy", EmptyDict)
ConfiguredPenalty == DictGet(DictGet(PolicyOf(model_policy), "penalties", EmptyDict),
                             "no_model_info", Half)
ConfiguredMinQuality == DictGet(PolicyOf(model_policy), "min_quality_score",
                                DefaultMinQuality)
ConfiguredBlacklist == DictGet(PolicyOf(model_policy), "blacklisted_models", <<>>)
\* the declared model name contains a blacklisted substring
DeclaredNameBlacklisted ==
    /\ "name" \in DOMAIN in_model_info
    /\ \E i \in 1 .. Len(ConfiguredBlacklist) :
          Contains(ConfiguredBlacklist[i], in_model_info["name"])
\* the declared model info is empty or its mode is 'unknown'
InfoEmptyOrUnknown ==
    \/ in_model_info = EmptyDict
    \/ ("mode" \in DOMAIN in_model_info /\ in_model_info["mode"] = "unknown")
\* base_score/100 is below min_quality_score
BaseBelowMinQuality ==
    Scored /\ RLess(out_score[1].base_score, RMul(R(100), ConfiguredMinQuality))

\* C5: the final score returned by score_response after the model-quality
\* adjustment satisfies 0 <= total <= 100, for every response and every policy.
C5_TotalInRange ==
    Scored => /\ RLeq(Zero, out_score[1].score)
              /\ RLeq(out_score[1].score, R(100))

\* C8 as stated: a declared model name containing a blacklisted substring gives
\* an adjusted score of 0 for every declared mode, 'unknown' included.
C8_BlacklistedAnyModeZero ==
    (Scored /\ DeclaredNameBlacklisted) => out_score[1].score = Zero

\* C8 amended: a declared model name containing a blacklisted substring gives an
\* adjusted score of 0 for every declared mode other than 'unknown' (a missing
\* mode included).
C8_BlacklistedKnownModeZero ==
    (Scored /\ DeclaredNameBlacklisted /\ ~InfoEmptyOrUnknown)
        => out_score[1].score = Zero

C8_Witness ==
    /\ Scored
    /\ DeclaredNameBlacklisted
    /\ "mode" \notin DOMAIN in_model_info
    /\ RLeq(R(60), out_score[1].base_score)
    /\ out_score[1].score = Zero

\* C9 as stated: base_score/100 below min_quality_score gives an adjusted score
\* of 0 for every declared model info, empty info and mode 'unknown' included.
C9_BelowMinQualityAnyInfoZero ==
    (Scored /\ BaseBelowMinQuality)
        => out_score[1].score = Zero

\* C9 amended: base_score/100 below min_quality_score gives an adjusted score of
\* 0 for every non-empty declared model info whose mode is not 'unknown'.
C9_BelowMinQualityKnownInfoZero ==
    (/\ Scored
     /\ ~InfoEmptyOrUnknown
     /\ BaseBelowMinQuality)
        => out_score[1].score = Zero

C9_Witness ==
    /\ Scored
    /\ ~InfoEmptyOrUnknown
    /\ ~DeclaredNameBlacklisted
    /\ RLess(Zero, out_score[1].base_score)
    /\ BaseBelowMinQuality
    /\ out_score[1].score = Zero

\* C10: with empty model info or mode 'unknown' the result is exactly
\* base_score times the configured no-info penalty, final_multiplier is that
\* penalty, no other policy check alters it, and it is 0 only if base_score or
\* the penalty is 0.
C10_NoInfoPenaltyOnly ==
    (Scored /\ InfoEmptyOrUnknown) =>
        /\ out_score[1].score = RMul(out_score[1].base_score, ConfiguredPenalty)
        /\ out_score[1].model_quality.final_multiplier = ConfiguredPenalty
        /\ out_score[1].model_quality.penalty = ConfiguredPenalty
        /\ out_score[1].model_quality.mode_multiplier = One
        /\ out_score[1].model_quality.model_bonus = One
        /\ (out_score[1].score = Zero =>
                out_score[1].base_score = Zero \/ ConfiguredPenalty = Zero)

C10_Witness ==
    /\ Scored
    /\ DictGet(in_model_info, "mode", None) = "unknown"
    /\ DeclaredNameBlacklisted
    /\ BaseBelowMinQuality
    /\ ConfiguredPenalty = Half
    /\ out_score[1].score # Zero

----------------------------------------------------------------------------
(* Claims about calculate_weights (SpecWeights)                             *)

WeightsReturned == Len(weights) = 1 /\ DOMAIN scores # {}

\* some peer's normalized weight was below the minimum and was raised to it
SomeWeightRaised ==
    \E u \in DOMAIN scores :
        LET c == [v \in DOMAIN scores |->
                     RPow(CompositeScore(scores, history, stake, v), TEMPERATURE)]
        IN  /\ RSum(c) # Zero
            /\ RLess(RDiv(c[u], RSum(c)), MIN_WEIGHT)

\* C6: for any non-empty map of EMA scores the weights returned by
\* calculate_weights sum to 1.0.
C6_WeightsSumToOne ==
    WeightsReturned => RSum(weights[1]) = One

C6_Witness ==
    /\ WeightsReturned
    /\ SomeWeightRaised
    /\ Cardinality(DOMAIN weights[1]) >= 2
    /\ RSum(weights[1]) = One

\* C7 as stated: for any non-empty map of EMA scores every weight returned by
\* calculate_weights is at least the floor 0.001, also for peers raised to it.
C7_EveryWeightAtLeastFloor ==
    WeightsReturned =>
        \A u \in DOMAIN weights[1] : RLeq(MIN_WEIGHT, weights[1][u])

\* C7 amended: every weight returned by calculate_weights is strictly positive
\* and at least 0.001 / (1 + 0.001 * n) for n peers: the second normalization
\* divides the floored weights by their sum, which lies between 1 and
\* 1 + 0.001 * n.
C7_EveryWeightAtLeastScaledFloor ==
    WeightsReturned =>
        \A u \in DOMAIN weights[1] :
            /\ RLess(Zero, weights[1][u])
            /\ RLeq(<<1, 1000 + Cardinality(DOMAIN weights[1])>>, weights[1][u])

C7_Witness ==
    /\ WeightsReturned
    /\ SomeWeightRaised
    /\ \E u \in DOMAIN weights[1] :
          /\ RLess(weights[1][u], MIN_WEIGHT)
          /\ RLess(Zero, weights[1][u])

----------------------------------------------------------------------------
(* Claims about run_step (Spec)                                             *)

ViolationsOf(v, u) == DictGet(v, u, 0)

\* the transition is a run_step that selected and queried miners
StepTaken == steps' = steps + 1 /\ Len(selected_uids') > 0

SelectedSet(uids) == {uids[i] : i \in 1 .. Len(uids)}

\* C1: across any sequence of validation steps a peer whose violation count
\* has reached 3 is in the blacklist from then on, and no step ever removes
\* a peer from the blacklist.
C1_BlacklistLatch ==
    /\ [](\A u \in Peers : ViolationsOf(violations, u) >= 3 => u \in blacklist)
    /\ [][blacklist \subseteq blacklist']_vars

\* a peer reached 3 violations and was blacklisted, and a later step ran that
\* did not flag it: it is still blacklisted
C1_Witness ==
    \E u \in blacklist :
        /\ ViolationsOf(violations, u) >= 3
        /\ Len(selected_uids) > 0
        /\ u \notin DOMAIN flags

\* C2: a step never selects a peer that is blacklisted when the step starts,
\* so after a peer has been blacklisted no later run_step selects or queries it.
C2_BlacklistedNeverSelected ==
    [][StepTaken => SelectedSet(selected_uids') \cap blacklist = {}]_vars

\* a step ran while a peer was already blacklisted, and selected only others
C2_Witness ==
    /\ Len(selected_uids) > 0
    /\ \E u \in blacklist : u \notin SelectedSet(selected_uids)
    /\ \E u \in Peers : axons[u] /\ u \in blacklist

\* C3: whenever detect_plagiarism flags a peer's response in run_step, the
\* score recorded for that peer in the step is 0 (and 0 is what the EMA update
\* of the step uses for it), the peer's violation count grows by exactly 1,
\* and the count of a peer that was not flagged in the step does not change.
C3_FlaggedZeroAndCounted ==
    [][StepTaken =>
          /\ \A u \in DOMAIN flags' :
                /\ u \in DOMAIN new_scores'
                /\ new_scores'[u] = Zero
                /\ ViolationsOf(violations', u) = ViolationsOf(violations, u) + 1
                /\ ema_updated' =>
                      scores'[u] = IF u \in DOMAIN scores
                                   THEN RMul(<<9, 10>>, scores[u])
                                   ELSE Zero
          /\ \A u \in Peers \ DOMAIN flags' :
                ViolationsOf(violations', u) = ViolationsOf(violations, u)
      ]_vars

\* a step flagged one peer's response as a copy of another peer's, which the
\* scorers valued above 0, and scored the other peer's response above 0
C3_Witness ==
    /\ ema_updated
    /\ \E u \in DOMAIN flags, v \in DOMAIN new_scores :
          /\ flags[u] = "cross_miner_copy"
          /\ new_scores[u] = Zero
          /\ ViolationsOf(violations, u) = 1
          /\ v \notin DOMAIN flags
          /\ ViolationsOf(violations, v) = 0
          /\ RLess(Zero, new_scores[v])

\* C4 as stated: when scoring one peer's response raises inside run_step, the
\* error is confined to that response: every other selected peer of the batch
\* has a score for the step and the EMA update of the step takes place.
C4_ErrorConfinedToResponse ==
    raised # NoUid =>
        /\ \A u \in SelectedSet(selected_uids) \ {raised} : u \in DOMAIN new_scores
        /\ ema_updated

----------------------------------------------------------------------------
(* Technical scorer (scoring/technical.py), applied to inputs drawn from    *)
(* bounded sets (SpecTech)                                                  *)

\* JSON values by what the scorer looks at: the Python type, the length of a
\* list, and whether every item of a list is a chapter object with id, title
\* and content
JStr == [t |-> "str", len |-> 0, items_ok |-> FALSE]
JNum == [t |-> "num", len |-> 0, items_ok |-> FALSE]
JDict == [t |-> "dict", len |-> 0, items_ok |-> FALSE]
JList(n) == [t |-> "list", len |-> n, items_ok |-> FALSE]
JChapters(n) == [t |-> "list", len |-> n, items_ok |-> TRUE]
Absent == [t |-> "absent", len |-> 0, items_ok |-> FALSE]

\* isinstance(value, expected_type)
IsInstance(value, expected_type) == value.t = expected_type

\* the mapping holding the fields that are present
Present(full) == [f \in {g \in DOMAIN full : full[g] # Absent} |-> full[f]]

\* data without the key f
Without(data, f) == [g \in (DOMAIN data) \ {f} |-> data[g]]

\* StoryGenerationSynapse.get_required_output_fields
get_required_output_fields(task_type) ==
    CASE task_type = "blueprint" ->
            <<"title", "genre", "setting", "core_conflict", "themes", "tone",
              "target_audience">>
      [] task_type = "characters" -> <<"characters">>
      [] task_type = "story_arc" ->
            <<"title", "description", "chapters", "arcs", "themes", "hooks">>
      [] task_type = "chapters" -> <<"chapters">>
      [] OTHER -> <<>>

BlueprintChecks ==
    << <<"title", "str">>, <<"genre", "str">>, <<"setting", "str">>,
       <<"core_conflict", "str">>, <<"themes", "list">>, <<"tone", "str">>,
       <<"target_audience", "str">> >>

StoryArcChecks ==
    << <<"title", "str">>, <<"description", "str">>, <<"chapters", "list">>,
       <<"arcs", "dict">>, <<"themes", "dict">>, <<"hooks", "dict">> >>

\* the loop `for field, expected_type in checks` of validate_field_types:
\* [correct_types, total_checks] after the checks from the i-th on
RECURSIVE RunChecks(_, _, _, _)
RunChecks(checks, i, data, themes_bonus) ==
    IF i > Len(checks) THEN [correct_types |-> Zero, total_checks |-> 0]
    ELSE LET field == checks[i][1]
             rest == RunChecks(checks, i + 1, data, themes_bonus)
         IN  IF field \notin DOMAIN data THEN rest
             ELSE LET typed == IF IsInstance(data[field], checks[i][2])
                               THEN One ELSE Zero
                      bonus == IF /\ themes_bonus
                                  /\ field = "themes"
                                  /\ IsInstance(data[field], "list")
                                  /\ 2 <= data[field].len
                                  /\ data[field].len <= 5
                               THEN Half ELSE Zero
                  IN  [correct_types |->
                           RAdd(rest.correct_types, RAdd(typed, bonus)),
                       total_checks |-> rest.total_checks + 1]

validate_field_types(data, task_type) ==
    LET has_list(f) == f \in DOMAIN data /\ IsInstance(data[f], "list")
        c == CASE task_type = "blueprint" ->
                     RunChecks(BlueprintChecks, 1, data, TRUE)
               [] task_type = "characters" ->
                     IF has_list("characters")
                     THEN [correct_types |->
                               IF data["characters"].len = 5 THEN One
                               ELSE RMin(Rat(data["characters"].len, 5), One),
                           total_checks |-> 1]
                     ELSE [correct_types |-> Zero, total_checks |-> 0]
               [] task_type = "story_arc" ->
                     LET r == RunChecks(StoryArcChecks, 1, data, FALSE)
                     IN  IF has_list("chapters") /\ data["chapters"].len = 12
                         THEN [r EXCEPT !.correct_types = RAdd(@, One)]
                         ELSE r
               [] task_type = "chapters" ->
                     IF has_list("chapters")
                     THEN [correct_types |->
                               IF data["chapters"].len = 0
                                  \/ data["chapters"].items_ok
                               THEN One ELSE Zero,
                           total_checks |-> 1]
                     ELSE [correct_types |-> Zero, total_checks |-> 0]
               [] OTHER -> [correct_types |-> Zero, total_checks |-> 0]
    IN  IF c.total_checks > 0
        THEN RDiv(c.correct_types, R(c.total_checks)) ELSE Zero

calculate_schema_score(data, required_fields, task_type) ==
    LET n == Len(required_fields)
        missing_fields == {i \in 1 .. n : required_fields[i] \notin DOMAIN data}
        matched == n - Cardinality(missing_fields)
    IN  IF n = 0 THEN R(10)
        ELSE IF missing_fields = {}
        THEN RMul(R(10), validate_field_types(data, task_type))
        ELSE IF n > 0 THEN RMul(R(10), Rat(matched, n)) ELSE Zero

calculate_time_score(generation_time) ==
    IF generation_time <= 30 THEN R(10)
    ELSE IF generation_time <= 60
    THEN RMax(Zero, RAdd(R(10), RMul(R(30 - generation_time), <<33, 100>>)))
    ELSE Zero

\* calculate_technical_score on the serialization of in.data (or on a string
\* that is no JSON when in.json_valid is FALSE)
calculate_technical_score(in) ==
    IF ~in.json_valid
    THEN [score |-> Zero,
          breakdown |-> [json_valid |-> Zero, schema_complete |-> Zero,
                         response_time |-> Zero]]
    ELSE LET schema_score == calculate_schema_score(
                                 in.data,
                                 get_required_output_fields(in.task_type),
                                 in.task_type)
             time_score == calculate_time_score(in.generation_time)
             total == RAdd(R(10), RAdd(schema_score, time_score))
         IN  [score |-> RMin(total, R(30)),
              breakdown |-> [json_valid |-> R(10),
                             schema_complete |-> schema_score,
                             response_time |-> time_score]]

\* responses per task type: every field absent or present with one of a few
\* values
BlueprintData ==
    {Present(full) : full \in
        [title : {Absent, JStr, JNum},
         genre : {Absent, JStr},
         setting : {Absent, JStr},
         core_conflict : {Absent, JStr},
         themes : {Absent, JStr, JList(1), JList(3), JList(6)},
         tone : {Absent, JStr, JNum},
         target_audience : {Absent, JStr}]}

StoryArcData ==
    {Present(full) : full \in
        [title : {Absent, JStr},
         description : {JStr},
         chapters : {Absent, JStr, JList(3), JList(12)},
         arcs : {JDict, JStr},
         themes : {JDict, JList(3)},
         hooks : {JDict}]}

CharactersData ==
    {Present(full) : full \in
        [characters : {Absent, JStr, JList(3), JList(5), JList(7)}]}

ChaptersData ==
    {Present(full) : full \in
        [chapters : {Absent, JStr, JList(2), JChapters(0), JChapters(2)}]}

GenerationTimes == {5, 45, 70}

TechInputs ==
    UNION {
      [data : BlueprintData, generation_time : GenerationTimes,
       task_type : {"blueprint"}, json_valid : {TRUE}],
      [data : StoryArcData, generation_time : GenerationTimes,
       task_type : {"story_arc"}, json_valid : {TRUE}],
      [data : CharactersData, generation_time : GenerationTimes,
       task_type : {"characters"}, json_valid : {TRUE}],
      [data : ChaptersData, generation_time : GenerationTimes,
       task_type : {"chapters"}, json_valid : {TRUE}],
      [data : {EmptyDict}, generation_time : GenerationTimes,
       task_type : {"blueprint", "other"}, json_valid : BOOLEAN] }

\* every variable but those of the technical scorer, at rest
ValidatorIdle ==
    /\ FreshValidator
    /\ StepIdle
    /\ model_policy = DefaultPolicy
    /\ axons = [u \in Peers |-> TRUE]
    /\ stake = [u \in Peers |-> 1]
    /\ in_sub = [tech |-> 0, struct |-> 0, rf |-> 0, narr |-> 0]
    /\ in_data = EmptyData
    /\ in_model_info = EmptyDict
    /\ out_score = <<>>
    /\ WeightsIdle

InitTech ==
    /\ ValidatorIdle
    /\ tech_in \in TechInputs
    /\ tech_out = <<>>
    /\ narr_in = <<>>
    /\ narr_out = <<>>
    /\ ema_in = <<>>
    /\ ema_n = 0
    /\ StructIdle
    /\ CacheIdle

\* the (score, breakdown) returned for the input, and the field the input
\* was given without ("" for none)
TechnicalResult(in, without) ==
    LET r == calculate_technical_score(in)
    IN  [score |-> r.score, breakdown |-> r.breakdown, without |-> without]

\* calculate_technical_score on the response
CalculateTechnical ==
    /\ tech_out = <<>>
    /\ tech_out' = << TechnicalResult(tech_in, "") >>
    /\ UNCHANGED <<validatorVars, stepVars, scoreVars, weightVars, tech_in,
                   narr_in, narr_out, ema_in, ema_n, structVars, cacheVars>>

\* calculate_technical_score on the same response with one field left out
CalculateTechnicalWithout ==
    /\ Len(tech_out) = 1
    /\ tech_in.json_valid
    /\ \E f \in DOMAIN tech_in.data :
          tech_out' = Append(tech_out,
              TechnicalResult([tech_in EXCEPT !.data = Without(@, f)], f))
    /\ UNCHANGED <<validatorVars, stepVars, scoreVars, weightVars, tech_in,
                   narr_in, narr_out, ema_in, ema_n, structVars, cacheVars>>

NextTech == CalculateTechnical \/ CalculateTechnicalWithout

SpecTech == InitTech /\ [][NextTech]_vars

----------------------------------------------------------------------------
(* Claims about the technical scorer (SpecTech)                             *)

\* the response holds every field required for its task type
Complete(in) ==
    LET required == get_required_output_fields(in.task_type)
    IN  \A i \in 1 .. Len(required) : required[i] \in DOMAIN in.data

\* C11 as stated: a blueprint response A holding all required fields scores
\* strictly more in calculate_technical_score than the response B that differs
\* from it only in lacking one of the fields, at equal generation time and
\* whatever the types of the field values.
C11_CompleteScoresHigher ==
    (/\ Len(tech_out) = 2
     /\ tech_in.json_valid
     /\ tech_in.task_type = "blueprint"
     /\ Complete(tech_in))
        => RLess(tech_out[2].score, tech_out[1].score)

\* C20 as stated: the schema-completeness component lies in [0, 10] for every
\* parsed response and task type, so that a perfect blueprint's breakdown is
\* exactly 10 + 10 + 10.
C20_SchemaScoreInRange ==
    \A i \in 1 .. Len(tech_out) :
        tech_in.json_valid =>
            /\ RLeq(Zero, tech_out[i].breakdown.schema_complete)
            /\ RLeq(tech_out[i].breakdown.schema_complete, R(10))

----------------------------------------------------------------------------
(* Claims about the responses of a batch (Spec)                             *)

\* the response is None, or a synapse whose output_data is None
NoOutput(r) == r.form = "none" \/ (r.form = "synapse" /\ r.output_data = NoData)

\* the uids of the entries the step appended to the history
AppendedUids(old, new) == {new[j].uid : j \in (Len(old) + 1) .. Len(new)}

\* what C12 says of the peer u, whose response of the step had no output
AbsentHandled(u) ==
    /\ u \in DOMAIN new_scores'
    /\ new_scores'[u] = Zero
    /\ u \notin DOMAIN flags'
    /\ ViolationsOf(violations', u) = ViolationsOf(violations, u)
    /\ (u \in blacklist') = (u \in blacklist)
    /\ u \notin AppendedUids(history, history')

\* C12 as stated: for a peer whose response is None or whose output_data is
\* None, run_step records score 0, flags no plagiarism, and leaves the peer's
\* violation count, the blacklist and the history as they were.
C12_AbsentScoredZeroNoTrace ==
    [][StepTaken =>
          \A i \in 1 .. Len(responses') :
              NoOutput(responses'[i]) => AbsentHandled(selected_uids'[i])
      ]_vars

\* the response carries non-empty output_data, as a synapse or as a mapping
HasContent(r) == r.form # "none" /\ ~Falsy(r.output_data)

\* C13 as stated: whenever the output_data of two different peers in one batch
\* have bigram-Jaccard similarity above 0.95, both peers are flagged as
\* cross-peer copy, whatever form the responses arrived in.
C13_CopiesBothFlagged ==
    \A i, j \in 1 .. Len(responses) :
        (/\ i # j
         /\ HasContent(responses[i])
         /\ HasContent(responses[j])
         /\ RLess(CROSS_MINER_THRESHOLD,
                  calculate_similarity(responses[i].output_data,
                                       responses[j].output_data)))
            => /\ selected_uids[i] \in DOMAIN flags
               /\ flags[selected_uids[i]] = "cross_miner_copy"

----------------------------------------------------------------------------
(* Narrative evaluator (scoring/narrative.py), applied to inputs drawn from *)
(* bounded sets (SpecNarrative)                                             *)

\* what a backend call returns: None (error, no key, timeout) or the text of
\* the judge's reply. A text is described by what json.loads makes of it: no
\* JSON at all, or a JSON value of type t; for an object, the value under
\* "narrative_flow" and the value under "brief_notes".
NoReply == [kind |-> "none", t |-> "", empty |-> TRUE, flow |-> "", notes |-> ""]
ReplyText(t, empty, flow, notes) ==
    [kind |-> "text", t |-> t, empty |-> empty, flow |-> flow, notes |-> notes]

JudgeReplies ==
    { ReplyText("no_json", FALSE, "", ""),      \* prose without any JSON
      ReplyText("null", TRUE, "", ""),          \* null
      ReplyText("dict", TRUE, "", ""),          \* {}
      ReplyText("list", FALSE, "", ""),         \* [4, 4, 3, 5]
      ReplyText("num", FALSE, "", ""),          \* 4
      ReplyText("dict", FALSE, "4", "str"),     \* the reply asked for
      ReplyText("dict", FALSE, "9", "absent"),      \* a value above 5
      ReplyText("dict", FALSE, "'4.5'", "list"),    \* a number as a string
      ReplyText("dict", FALSE, "'high'", "str"),    \* a word
      ReplyText("dict", FALSE, "null", "str"),      \* null
      ReplyText("dict", FALSE, "absent", "null"),   \* notes null
      ReplyText("dict", FALSE, "4", "num") }        \* notes a number

\* the evaluator's configuration: the built-in default, a file that leaves
\* fallback_score and max_retries out, a file that disables the judge
NarrativeConfigs ==
    { [enabled |-> TRUE, max_retries |-> 2, fallback_score |-> R(15)],
      [enabled |-> TRUE, max_retries |-> 0],
      [enabled |-> FALSE, max_retries |-> 2, fallback_score |-> R(15)] }

MIN_CONTENT_LENGTH == 50
DEFAULT_MAX_RETRIES == 2
DEFAULT_FALLBACK_SCORE == R(10)
DEFAULT_DIMENSION_SCORE == <<5, 2>>

\* the loop over the attempts: the first reply that is truthy, else the last
RECURSIVE CallBackend(_, _, _)
CallBackend(replies, attempt, attempts) ==
    IF attempt >= attempts THEN replies[attempts]
    ELSE IF replies[attempt].kind = "text" THEN replies[attempt]
    ELSE CallBackend(replies, attempt + 1, attempts)

\* _parse_ai_response: None, or the JSON value found in the reply
parse_ai_response(response) ==
    IF response.kind = "none" \/ response.t = "no_json" \/ response.t = "null"
    THEN [none |-> TRUE, t |-> "", empty |-> TRUE, flow |-> "", notes |-> ""]
    ELSE [none |-> FALSE, t |-> response.t, empty |-> response.empty,
          flow |-> response.flow, notes |-> response.notes]

\* float(parsed.get(dim, 2.5)): the value, or raised
DimensionScore(v) ==
    CASE v = "absent" -> [raised |-> FALSE, value |-> DEFAULT_DIMENSION_SCORE]
      [] v = "4" -> [raised |-> FALSE, value |-> R(4)]
      [] v = "9" -> [raised |-> FALSE, value |-> R(9)]
      [] v = "'4.5'" -> [raised |-> FALSE, value |-> <<9, 2>>]
      [] OTHER -> [raised |-> TRUE, value |-> Zero]

\* parsed.get("brief_notes", "")[:200] raises for a value that cannot be sliced
NotesRaise(v) == v \in {"null", "num"}

\* max(0, min(5, dim_score))
ClampDimension(x) == RMax(Zero, RMin(R(5), x))

\* total_score of evaluate for the reply parsed: the clamped dimension scores
\* weighted by the default dimension_weights, times 6
narrative_total_score(parsed) ==
    RAdd(RMul(RMul(ClampDimension(DimensionScore(parsed.flow).value),
                   <<30, 100>>), R(6)),
         RMul(RMul(ClampDimension(DEFAULT_DIMENSION_SCORE), <<70, 100>>), R(6)))

\* NarrativeEvaluator.evaluate on content that is not in the cache
evaluate(in) ==
    LET config == in.config
        fallback == DictGet(config, "fallback_score", DEFAULT_FALLBACK_SCORE)
        attempts == DictGet(config, "max_retries", DEFAULT_MAX_RETRIES) + 1
        response == CallBackend(in.replies, 1, attempts)
        parsed == parse_ai_response(response)
        flow == DimensionScore(parsed.flow)
        total_score == narrative_total_score(parsed)
        Returns(score, method) ==
            [raised |-> FALSE, score |-> score, method |-> method]
        Raises == [raised |-> TRUE, score |-> Zero, method |-> ""]
    IN  IF ~DictGet(config, "enabled", TRUE) THEN Returns(fallback, "disabled")
        ELSE IF in.content_length < MIN_CONTENT_LENGTH
        THEN Returns(R(5), "insufficient_content")
        ELSE IF in.debug /\ response.kind = "none" THEN Raises
        ELSE IF parsed.none \/ parsed.empty THEN Returns(fallback, "fallback")
        ELSE IF parsed.t # "dict" THEN Raises
        ELSE IF flow.raised THEN Raises
        ELSE IF NotesRaise(parsed.notes) THEN Raises
        ELSE Returns(RMin(total_score, R(30)), "ai")

NarrativeInputs ==
    UNION {[config : {c}, content_length : {10, 80}, debug : BOOLEAN,
            replies : [1 .. (DictGet(c, "max_retries", DEFAULT_MAX_RETRIES) + 1)
                          -> JudgeReplies \cup {NoReply}]]
           : c \in NarrativeConfigs}

InitNarrative ==
    /\ ValidatorIdle
    /\ tech_in = <<>>
    /\ tech_out = <<>>
    /\ narr_in \in NarrativeInputs
    /\ narr_out = <<>>
    /\ ema_in = <<>>
    /\ ema_n = 0
    /\ StructIdle
    /\ CacheIdle

Evaluate ==
    /\ narr_out = <<>>
    /\ narr_out' = << evaluate(narr_in) >>
    /\ UNCHANGED <<validatorVars, stepVars, scoreVars, weightVars, tech_in,
                   tech_out, narr_in, ema_in, ema_n, structVars, cacheVars>>

NextNarrative == Evaluate

SpecNarrative == InitNarrative /\ [][NextNarrative]_vars

----------------------------------------------------------------------------
(* The evaluator's cache: _check_cache, _cache_result and evaluate as a     *)
(* state machine over self.cache and the clock (SpecNarrativeCache)         *)

CACHE_TTL == 3600
CACHE_MAX_ENTRIES == 1000
NoHash == -1

\* the result stored for a judged reply: the uncapped total and a copy of the
\* breakdown
CacheData(parsed) ==
    [score |-> narrative_total_score(parsed),
     breakdown |-> [evaluation_method |-> "ai",
                    narrative_flow |->
                        ClampDimension(DimensionScore(parsed.flow).value)]]

\* as check_cache, the stored entries never used
check_cache_unused(config, cache, content_hash, now) ==
    [hit |-> FALSE, result |-> <<>>, cache |-> cache]

\* _check_cache: the cached result if there is a fresh one; an entry that
\* has outlived the TTL is deleted
check_cache(config, cache, content_hash, now) ==
    IF ~DictGet(config, "cache_enabled", TRUE)
    THEN [hit |-> FALSE, result |-> <<>>, cache |-> cache]
    ELSE IF content_hash \in DOMAIN cache
    THEN IF now - cache[content_hash].timestamp < CACHE_TTL
         THEN [hit |-> TRUE, result |-> cache[content_hash].result,
               cache |-> cache]
         ELSE [hit |-> FALSE, result |-> <<>>,
               cache |-> [h \in (DOMAIN cache) \ {content_hash} |-> cache[h]]]
    ELSE [hit |-> FALSE, result |-> <<>>, cache |-> cache]

\* the key of the entry with the least timestamp
OldestEntry(cache) ==
    CHOOSE h \in DOMAIN cache :
        \A g \in DOMAIN cache : cache[h].timestamp <= cache[g].timestamp

\* _cache_result: store, then drop the oldest entry of an overfull cache
cache_result(config, cache, content_hash, result, now) ==
    IF ~DictGet(config, "cache_enabled", TRUE)
    THEN [cache |-> cache, evicted |-> NoHash]
    ELSE LET stored == [h \in (DOMAIN cache) \cup {content_hash} |->
                           IF h = content_hash
                           THEN [result |-> result, timestamp |-> now]
                           ELSE cache[h]]
         IN  IF Cardinality(DOMAIN stored) > CACHE_MAX_ENTRIES
             THEN [cache |-> [h \in (DOMAIN stored) \ {OldestEntry(stored)} |->
                                 stored[h]],
                   evicted |-> OldestEntry(stored)]
             ELSE [cache |-> stored, evicted |-> NoHash]

\* the backend calls made by the loop over the attempts
RECURSIVE JudgeCalls(_, _, _)
JudgeCalls(replies, attempt, attempts) ==
    IF attempt >= attempts THEN attempts
    ELSE IF replies[attempt].kind = "text" THEN attempt
    ELSE JudgeCalls(replies, attempt + 1, attempts)

\* seconds a backend call takes
JUDGE_SECONDS == 1

\* the (score, breakdown) evaluate returns without a cached result
Uncached(r, parsed) ==
    [raised |-> r.raised, score |-> r.score,
     breakdown |-> [evaluation_method |-> r.method,
                    narrative_flow |->
                        IF r.method = "ai"
                        THEN ClampDimension(DimensionScore(parsed.flow).value)
                        ELSE Zero]]

\* NarrativeEvaluator.evaluate with its cache: what it returns, the cache
\* and the clock it leaves, the backend calls it made
evaluate_with_cache(config, cache, now, content, replies) ==
    LET in == [config |-> config, content_length |-> content.length,
               debug |-> FALSE, replies |-> replies]
        attempts == DictGet(config, "max_retries", DEFAULT_MAX_RETRIES) + 1
        parsed == parse_ai_response(CallBackend(replies, 1, attempts))
        r == evaluate(in)
        cached == check_cache(config, cache, content.hash, now)
        calls == JudgeCalls(replies, 1, attempts)
        after == now + calls * JUDGE_SECONDS
        put == cache_result(config, cached.cache, content.hash,
                            CacheData(parsed), after)
        Outcome(result, c, t, n, at, ev) ==
            [result |-> result, cache |-> c, clock |-> t, calls |-> n,
             cached_at |-> at, evicted |-> ev]
    IN  IF ~DictGet(config, "enabled", TRUE)
           \/ content.length < MIN_CONTENT_LENGTH
        THEN Outcome(Uncached(r, parsed), cache, now, 0, NoHash, NoHash)
        ELSE IF cached.hit
        THEN Outcome([raised |-> FALSE, score |-> cached.result.score,
                      breakdown |-> cached.result.breakdown],
                     cache, now, 0, NoHash, NoHash)
        ELSE IF r.raised \/ r.method # "ai"
        THEN Outcome(Uncached(r, parsed), cached.cache, after, calls, NoHash,
                     NoHash)
        ELSE Outcome(Uncached(r, parsed), put.cache, after, calls,
                     IF DictGet(config, "cache_enabled", TRUE) THEN after
                     ELSE NoHash,
                     put.evicted)

MaxEvaluations == 3
MaxClock == 5000

\* extracted contents, by their hash: X and Y long enough to be judged, one
\* too short
ContentX == [hash |-> 1, length |-> 80]
ContentY == [hash |-> 1001, length |-> 80]
ContentShort == [hash |-> 1002, length |-> 10]
Contents == {ContentX, ContentY, ContentShort}

\* the configuration with one attempt per evaluation, cached or not
CacheConfigs ==
    { [enabled |-> TRUE, max_retries |-> 0],
      [enabled |-> TRUE, max_retries |-> 0, cache_enabled |-> FALSE] }

\* the judge's replies: none, the reply asked for, one with a value above 5,
\* and a list
CacheReplies ==
    { NoReply, ReplyText("dict", FALSE, "4", "str"),
      ReplyText("dict", FALSE, "9", "absent"), ReplyText("list", FALSE, "", "") }

\* one record of judge_log
LogEntry(content, at, out) ==
    [content |-> content.hash, at |-> at, calls |-> out.calls,
     raised |-> out.result.raised, score |-> out.result.score,
     breakdown |-> out.result.breakdown, cached_at |-> out.cached_at,
     evicted |-> out.evicted]

\* the state after CACHE_MAX_ENTRIES evaluations, one a second, of as many
\* contents with the reply asked for; ContentX was the first of them
FullCacheOutcome ==
    [result |-> Uncached(
                    [raised |-> FALSE,
                     score |-> RMin(narrative_total_score([flow |-> "4"]), R(30)),
                     method |-> "ai"],
                    [flow |-> "4"]),
     calls |-> 1, cached_at |-> 1, evicted |-> NoHash]

InitNarrativeCache ==
    /\ ValidatorIdle
    /\ tech_in = <<>>
    /\ tech_out = <<>>
    /\ narr_in = <<>>
    /\ narr_out = <<>>
    /\ ema_in = <<>>
    /\ ema_n = 0
    /\ StructIdle
    /\ judge_config \in CacheConfigs
    /\ \/ /\ judge_cache = <<>>
          /\ judge_clock = 0
          /\ judge_log = <<>>
       \/ /\ DictGet(judge_config, "cache_enabled", TRUE)
          /\ judge_cache = [h \in 1 .. CACHE_MAX_ENTRIES |->
                               [result |-> CacheData([flow |-> "4"]),
                                timestamp |-> h]]
          /\ judge_clock = CACHE_MAX_ENTRIES
          /\ judge_log = << LogEntry(ContentX, 0, FullCacheOutcome) >>

\* one call of evaluate
EvaluateContent ==
    /\ Len(judge_log) < MaxEvaluations
    /\ \E content \in Contents, reply \in CacheReplies :
          LET out == evaluate_with_cache(judge_config, judge_cache,
                                         judge_clock, content, << reply >>)
          IN  /\ judge_cache' = out.cache
              /\ judge_clock' = out.clock
              /\ judge_log' = Append(judge_log,
                                     LogEntry(content, judge_clock, out))
    /\ UNCHANGED <<validatorVars, stepVars, scoreVars, weightVars, tech_in,
                   tech_out, narr_in, narr_out, ema_in, ema_n, structVars,
                   judge_config>>

\* half an hour passes between two evaluations
HalfHourPasses ==
    /\ judge_clock + (CACHE_TTL \div 2) <= MaxClock
    /\ judge_clock' = judge_clock + (CACHE_TTL \div 2)
    /\ UNCHANGED <<validatorVars, stepVars, scoreVars, weightVars, tech_in,
                   tech_out, narr_in, narr_out, ema_in, ema_n, structVars,
                   judge_config, judge_cache, judge_log>>

NextNarrativeCache == EvaluateContent \/ HalfHourPasses

SpecNarrativeCache == InitNarrativeCache /\ [][NextNarrativeCache]_vars

\* no attempt brought a reply, or the reply holds no JSON
NoUsableReply ==
    LET attempts == DictGet(narr_in.config, "max_retries", DEFAULT_MAX_RETRIES) + 1
    IN  \/ \A a \in 1 .. attempts : narr_in.replies[a].kind = "none"
        \/ \E a \in 1 .. attempts :
              /\ \A b \in 1 .. (a - 1) : narr_in.replies[b].kind = "none"
              /\ narr_in.replies[a].kind = "text"
              /\ narr_in.replies[a].t = "no_json"

\* C14 as stated: for every outcome of the judge evaluate returns a (score,
\* breakdown) pair without raising, and when no usable reply was obtained the
\* score is the configured fallback score and the breakdown says "fallback".
C14_EvaluateNeverRaises ==
    Len(narr_out) = 1 =>
        /\ ~narr_out[1].raised
        /\ (/\ DictGet(narr_in.config, "enabled", TRUE)
            /\ narr_in.content_length >= MIN_CONTENT_LENGTH
            /\ NoUsableReply)
              => /\ narr_out[1].method = "fallback"
                 /\ narr_out[1].score =
                        DictGet(narr_in.config, "fallback_score",
                                DEFAULT_FALLBACK_SCORE)

----------------------------------------------------------------------------
(* Claims about the EMA update (Spec, SpecEma)                              *)

\* C15: when update_ema_scores runs for a step, every peer with a score in
\* the step (the 0 of an absent or flagged response included) gets that score
\* as its EMA if it had none, and 0.1 * score + 0.9 * ema_old otherwise; the
\* EMA of every other peer stays as it was.
C15_EmaUpdateRule ==
    [][(StepTaken /\ ema_updated') =>
          /\ DOMAIN scores' = (DOMAIN scores) \cup (DOMAIN new_scores')
          /\ \A u \in DOMAIN new_scores' :
                scores'[u] =
                    IF u \notin DOMAIN scores THEN new_scores'[u]
                    ELSE RAdd(RMul(<<1, 10>>, new_scores'[u]),
                              RMul(<<9, 10>>, scores[u]))
          /\ \A u \in (DOMAIN scores) \ (DOMAIN new_scores') :
                scores'[u] = scores[u]
      ]_vars

\* a step blended the 0 of an absent or flagged response into a positive EMA,
\* and an earlier step gave a peer its first EMA directly
C15_Witness ==
    /\ ema_updated
    /\ \E u \in DOMAIN new_scores :
          /\ new_scores[u] = Zero
          /\ RLess(Zero, scores[u])
          /\ (NoOutput(responses[CHOOSE i \in 1 .. Len(responses) :
                                     selected_uids[i] = u])
              \/ u \in DOMAIN flags)

----------------------------------------------------------------------------
(* update_ema_scores fed the same score on every update (SpecEma)           *)

MaxEmaUpdates == 6

\* the peer whose EMA is followed
EmaPeer == 0

\* values of self.ema_alpha (EMA_ALPHA in the environment), 0 < alpha <= 1
EmaAlphas == {<<1, 1>>, <<1, 2>>, <<1, 4>>, <<1, 10>>}

\* the score fed on every update
EmaTargets == {R(0), R(30), R(100)}

\* self.scores before the first update: no EMA for the peer, or one left by
\* earlier steps
EmaStarts == {EmptyDict} \cup {(EmaPeer :> v) : v \in {R(0), R(60), R(100)}}

InitEma ==
    /\ scores \in EmaStarts
    /\ history = <<>>
    /\ blacklist = {}
    /\ violations = EmptyDict
    /\ total_queries = 0
    /\ StepIdle
    /\ model_policy = DefaultPolicy
    /\ axons = [u \in Peers |-> TRUE]
    /\ stake = [u \in Peers |-> 1]
    /\ in_sub = [tech |-> 0, struct |-> 0, rf |-> 0, narr |-> 0]
    /\ in_data = EmptyData
    /\ in_model_info = EmptyDict
    /\ out_score = <<>>
    /\ WeightsIdle
    /\ tech_in = <<>>
    /\ tech_out = <<>>
    /\ narr_in = <<>>
    /\ narr_out = <<>>
    /\ \E al \in EmaAlphas, s \in EmaTargets :
          ema_in = [alpha |-> al, target |-> s, start |-> scores]
    /\ ema_n = 0
    /\ StructIdle
    /\ CacheIdle

\* one more update_ema_scores({EmaPeer: s}) with the same s
FeedSameScore ==
    /\ ema_n < MaxEmaUpdates
    /\ scores' = update_ema_scores_with(scores, (EmaPeer :> ema_in.target),
                                        ema_in.alpha)
    /\ ema_n' = ema_n + 1
    /\ UNCHANGED <<history, blacklist, violations, total_queries, model_policy,
                   axons, stake, stepVars, in_sub, in_data, in_model_info,
                   out_score, weightVars, tech_in, tech_out, narr_in,
                   narr_out, ema_in, structVars, cacheVars>>

NextEma == FeedSameScore

SpecEma == InitEma /\ [][NextEma]_vars

\* |a - b|
RDist(a, b) ==
    LET d == RAdd(a, <<-b[1], b[2]>>)
    IN  <<Abs(d[1]), d[2]>>

\* distance of the peer's EMA in sc from the score fed
EmaDistance(sc) == RDist(sc[EmaPeer], ema_in.target)

\* C16: feeding the same score s to a peer's EMA with 0 < alpha <= 1, the
\* distance |ema - s| never increases from one update to the next and
\* strictly decreases while the EMA differs from s (a first score sets the
\* EMA to s at once); after n updates the distance is at most
\* d0 / (1 + n * alpha), d0 the distance before the first update, so it is
\* within a tolerance eps once n >= (d0 / eps - 1) / alpha, a number of
\* updates proportional to 1 / alpha.  (EMA values are exact rationals here,
\* as every score of this module; the rounding of doubles is not modelled.)
C16_EmaConverges ==
    /\ [][ema_n' = ema_n + 1 =>
             IF EmaPeer \notin DOMAIN scores
             THEN scores'[EmaPeer] = ema_in.target
             ELSE /\ RLeq(EmaDistance(scores'), EmaDistance(scores))
                  /\ scores[EmaPeer] # ema_in.target =>
                        RLess(EmaDistance(scores'), EmaDistance(scores))
                  /\ scores[EmaPeer] = ema_in.target =>
                        scores'[EmaPeer] = ema_in.target
          ]_vars
    /\ [](  (ema_n > 0 /\ EmaPeer \in DOMAIN ema_in.start) =>
              RLeq(RMul(EmaDistance(scores),
                        RAdd(One, RMul(R(ema_n), ema_in.alpha))),
                   RDist(ema_in.start[EmaPeer], ema_in.target)))

\* three updates with alpha < 1 have brought an EMA that started away from
\* the score to less than half the starting distance, without reaching it
C16_Witness ==
    /\ ema_n >= 3
    /\ EmaPeer \in DOMAIN ema_in.start
    /\ RLess(ema_in.alpha, One)
    /\ RLess(Zero, EmaDistance(scores))
    /\ RLess(RMul(R(2), EmaDistance(scores)),
             RDist(ema_in.start[EmaPeer], ema_in.target))

----------------------------------------------------------------------------
(* run_step on a validator whose history is about to fill (SpecHistory)     *)

\* the history after many steps in which every answer was an empty mapping:
\* a step answered by peer 0 alone, then a step answered by peers 0 and 1,
\* and so on; every entry scored 0
LongHistory(n) ==
    [i \in 1 .. n |-> [uid |-> IF i % 3 = 0 THEN 1 ELSE 0,
                       output_data |-> EmptyData,
                       score |-> Zero]]

\* the steps that built LongHistory(n)
StepsOfLongHistory(n) == 2 * (n \div 3) + (n % 3)

InitFullHistory ==
    /\ \E n \in (HISTORY_MAXLEN - 2) .. HISTORY_MAXLEN :
          /\ history = LongHistory(n)
          /\ total_queries = StepsOfLongHistory(n)
    /\ scores = [u \in Peers |-> Zero]
    /\ blacklist = {}
    /\ violations = EmptyDict
    /\ StepIdle
    /\ model_policy = LocalFirstPolicy
    /\ axons \in {[u \in Peers |-> TRUE], [u \in Peers |-> FALSE]}
    /\ stake = [u \in Peers |-> 1]
    /\ in_sub = [tech |-> 0, struct |-> 0, rf |-> 0, narr |-> 0]
    /\ in_data = EmptyData
    /\ in_model_info = EmptyDict
    /\ out_score = <<>>
    /\ WeightsIdle
    /\ AuxIdle

MaxHistorySteps == 2

\* run_step, for the first MaxHistorySteps steps on the long history
RunStepOnLongHistory ==
    /\ steps < MaxHistorySteps
    /\ RunStep

NextHistory == RunStepOnLongHistory \/ RunStepNoMiners

SpecHistory == InitFullHistory /\ [][NextHistory]_vars

\* positions of the step's responses whose entry was appended to the history
AppendedPositions ==
    {i \in 1 .. Len(selected_uids') :
        /\ selected_uids'[i] \in DOMAIN new_scores'
        /\ selected_uids'[i] \notin DOMAIN flags'
        /\ ~NoOutput(responses'[i])}

\* C17: the history never holds more than 1000 entries; a step that appends
\* k entries keeps the entries it had in their order, drops only as many of
\* the oldest as the capacity requires, and puts the new entries last, in
\* the order of the responses.
C17_HistoryBoundedFifo ==
    /\ [](Len(history) <= 1000)
    /\ [][StepTaken =>
             LET k == Cardinality(AppendedPositions)
                 n == Len(history)
                 m == Len(history')
                 drop == n + k - m
             IN  /\ m = Min(n + k, 1000)
                 /\ \A i \in 1 .. (m - k) : history'[i] = history[i + drop]
                 /\ \A i \in AppendedPositions :
                       history'[m - k + Cardinality({j \in AppendedPositions :
                                                        j <= i})].uid
                           = selected_uids'[i]
          ]_vars

\* the history is full and no longer starts as LongHistory does: appends to
\* the full history have evicted entries
C17_Witness ==
    /\ Len(history) = 1000
    /\ <<history[1].uid, history[2].uid, history[3].uid>> # <<0, 0, 1>>
    /\ ema_updated
    /\ \E i \in 1 .. Len(selected_uids) :
          /\ ~NoOutput(responses[i])
          /\ history[1000].uid = selected_uids[i]

----------------------------------------------------------------------------
(* Claim about the historical average of calculate_weights (SpecWeights)    *)

\* the entries of the history that belong to the peer, oldest first
OwnEntries(hist, uid) == SelectSeq(hist, LAMBDA h : h.uid = uid)

\* the mean score of the entries
MeanScore(entries) == RDiv(RSumSeq(entries, 1), R(Len(entries)))

\* C18 as stated: the historical average calculate_weights uses for a peer is
\* the mean score of the peer's own 50 most recent history entries, wherever
\* they sit in the shared buffer; a peer with an entry in the history never
\* gets another value in its place.
C18_OwnLastFiftyAveraged ==
    weights # <<>> =>
        \A uid \in DOMAIN scores :
            Len(OwnEntries(history, uid)) > 0 =>
                historical_avgs[1][uid] =
                    MeanScore(LastN(OwnEntries(history, uid), 50))

----------------------------------------------------------------------------
(* Claim about the originality sub-score of score_response (SpecScore)      *)

\* the originality the claim gives a response against a history window: 0
\* for an exact duplicate, else 5, 2 or 0 by the greatest similarity
ClaimedOriginality(data, window) ==
    LET sims == {calculate_similarity(data, window[i].output_data) :
                    i \in 1 .. Len(window)}
        max_similarity == CHOOSE m \in sims : \A x \in sims : RLeq(x, m)
    IN  IF \E i \in 1 .. Len(window) :
               Serialize(window[i].output_data) = Serialize(data)
        THEN Zero
        ELSE IF RLess(max_similarity, <<8, 10>>) THEN R(5)
        ELSE IF RLess(max_similarity, <<9, 10>>) THEN R(2)
        ELSE Zero

\* C19 as stated: with a non-empty history, score_response returns normally
\* for a response with content, and the content part of its base score
\* carries the originality of the claim's rule (0 for an exact duplicate in
\* the window, else 5 / 2 / 0 for a greatest similarity below 0.8 / below
\* 0.9 / otherwise).
C19_OriginalityWithHistory ==
    (Len(out_score) = 1 /\ history # <<>> /\ ~Falsy(in_data)) =>
        /\ ~out_score[1].raised
        /\ out_score[1].base_score =
              RAdd(RAdd(RMul(R(in_sub.tech), <<20, 30>>),
                        RMul(R(in_sub.struct), <<30, 40>>)),
                   RAdd(RMul(RMin(RAdd(R(in_sub.rf),
                                       ClaimedOriginality(
                                           in_data, LastN(history, 20))),
                                  R(30)),
                             <<20, 30>>),
                        R(in_sub.narr)))

----------------------------------------------------------------------------
(* Structure scorer (scoring/structure.py)                                  *)
(* An item of data["chapters"] or data["characters"] is a record: isdict    *)
(* (is it a mapping), numeric and progress (its storyProgress), fields (how *)
(* many of the 7 required character fields it has), rels (the size of its   *)
(* relationships mapping, -1 when that is not a mapping).                   *)

REQUIRED_CHAR_FIELDS == 7
TARGET_CHARACTERS == 5
MIN_CHARACTERS == 3
TARGET_CHAPTERS == 12
MIN_CHAPTERS == 8
MAX_TOLERATED_VIOLATIONS == 2
INITIAL_PREV_PROGRESS == -1
STRUCTURE_CAP == 40

RequiredActs == {"act1", "act2a", "act2b", "act3"}

\* is_progress_monotonic, from the i-th chapter on
RECURSIVE ProgressMonotonicFrom(_, _, _)
ProgressMonotonicFrom(chapters, i, prev_progress) ==
    IF i > Len(chapters) THEN TRUE
    ELSE IF ~chapters[i].isdict
    THEN ProgressMonotonicFrom(chapters, i + 1, prev_progress)
    ELSE IF ~chapters[i].numeric THEN FALSE
    ELSE IF chapters[i].progress <= prev_progress THEN FALSE
    ELSE ProgressMonotonicFrom(chapters, i + 1, chapters[i].progress)

is_progress_monotonic(chapters) ==
    IF Len(chapters) = 0 THEN TRUE
    ELSE ProgressMonotonicFrom(chapters, 1, INITIAL_PREV_PROGRESS)

\* count_progress_violations, from the i-th chapter on
RECURSIVE ProgressViolationsFrom(_, _, _)
ProgressViolationsFrom(chapters, i, prev_progress) ==
    IF i > Len(chapters) THEN 0
    ELSE IF ~chapters[i].isdict \/ ~chapters[i].numeric
    THEN ProgressViolationsFrom(chapters, i + 1, prev_progress)
    ELSE (IF chapters[i].progress <= prev_progress THEN 1 ELSE 0)
         + ProgressViolationsFrom(chapters, i + 1, chapters[i].progress)

count_progress_violations(chapters) ==
    ProgressViolationsFrom(chapters, 1, INITIAL_PREV_PROGRESS)

\* arcs: isdict, and acts: act name -> number of chapters of the act (-1
\* when the act is not a mapping, -2 when its chapters are not a list)
validate_act_structure(arcs) ==
    /\ arcs.isdict
    /\ \A act \in RequiredActs :
          /\ act \in DOMAIN arcs.acts
          /\ arcs.acts[act] = 3

score_partial_act_structure(arcs) ==
    IF ~arcs.isdict THEN Zero
    ELSE Rat(Cardinality(RequiredActs \cap DOMAIN arcs.acts),
             Cardinality(RequiredActs))

\* breakdown["chapter_count"] for n chapters
StoryArcCountScore(n) ==
    IF n = TARGET_CHAPTERS THEN R(20)
    ELSE IF n >= MIN_CHAPTERS THEN RMul(R(20), Rat(n, TARGET_CHAPTERS))
    ELSE Zero

\* breakdown["progress_monotonic"]
ProgressScore(chapters) ==
    IF is_progress_monotonic(chapters) THEN R(10)
    ELSE LET v == count_progress_violations(chapters)
         IN  IF v <= MAX_TOLERATED_VIOLATIONS
             THEN RMul(R(10), RAdd(One, Rat(-v, Len(chapters))))
             ELSE Zero

score_story_arc_structure(data) ==
    IF ~data.is_list
    THEN [score |-> Zero,
          breakdown |-> [chapter_count |-> Zero, progress_monotonic |-> Zero,
                         act_structure |-> Zero]]
    ELSE
    LET chapters == data.items
        b == [chapter_count |-> StoryArcCountScore(Len(chapters)),
              progress_monotonic |-> ProgressScore(chapters),
              act_structure |-> IF validate_act_structure(data.arcs) THEN R(10)
                                ELSE RMul(R(10),
                                          score_partial_act_structure(data.arcs))]
    IN  [score |-> RAdd(RAdd(b.chapter_count, b.progress_monotonic),
                        b.act_structure),
         breakdown |-> b]

\* breakdown["character_count"] for n characters
CharacterCountScore(n) ==
    IF n = TARGET_CHARACTERS THEN R(20)
    ELSE IF n >= MIN_CHARACTERS THEN RMul(R(20), Rat(n, TARGET_CHARACTERS))
    ELSE Zero

\* sum of f over the items of sq at the positions in S
RECURSIVE RSumAt(_, _, _)
RSumAt(f(_), sq, S) ==
    IF S = {} THEN Zero
    ELSE LET i == CHOOSE x \in S : TRUE
         IN  RAdd(f(sq[i]), RSumAt(f, sq, S \ {i}))

score_characters_structure(data) ==
    IF ~data.is_list
    THEN [score |-> Zero,
          breakdown |-> [character_count |-> Zero,
                         character_completeness |-> Zero,
                         relationships |-> Zero]]
    ELSE
    LET characters == data.items
        dicts == {i \in 1 .. Len(characters) : characters[i].isdict}
        related == {i \in dicts : characters[i].rels >= 1}
        Completeness(char) == Rat(char.fields, REQUIRED_CHAR_FIELDS)
        Relationship(char) == IF char.rels >= 2 THEN One ELSE Half
        b == [character_count |-> CharacterCountScore(Len(characters)),
              character_completeness |->
                  IF dicts = {} THEN Zero
                  ELSE RMul(R(10), RDiv(RSumAt(Completeness, characters, dicts),
                                        R(Cardinality(dicts)))),
              relationships |->
                  IF related = {} THEN Zero
                  ELSE RMul(R(10), RDiv(RSumAt(Relationship, characters, related),
                                        R(Cardinality(related))))]
    IN  [score |-> RAdd(RAdd(b.character_count, b.character_completeness),
                        b.relationships),
         breakdown |-> b]

\* calculate_structure_score for the two task types modelled
calculate_structure_score(data, task_type) ==
    LET r == IF task_type = "characters" THEN score_characters_structure(data)
             ELSE score_story_arc_structure(data)
    IN  [score |-> RMin(r.score, R(STRUCTURE_CAP)), breakdown |-> r.breakdown]

(* Inputs of the structure scorer (SpecStructure) *)

MaxItems == 13

Item(isdict, numeric, progress, fields, rels) ==
    [isdict |-> isdict, numeric |-> numeric, progress |-> progress,
     fields |-> fields, rels |-> rels]

\* a chapter list of n mappings: the first chapter's progress is first, a
\* chapter in dips repeats or falls below the progress of the one before,
\* every other chapter adds 5 to it
ChapterList(n, first, dips, drop) ==
    [i \in 1 .. n |->
        Item(TRUE, TRUE,
             first + 5 * Cardinality((2 .. i) \ dips)
                   - drop * Cardinality((2 .. i) \cap dips),
             0, 0)]

\* the lists with at most 3 such chapters
ChapterLists ==
    {ChapterList(n, first, dips, drop) :
        n \in {1, 2, 3, MIN_CHAPTERS, TARGET_CHAPTERS, MaxItems},
        first \in {-1, 0, 5},
        dips \in {D \in SUBSET {2, 3, 7, 8, 12} : Cardinality(D) <= 3},
        drop \in {0, 3}}

\* lists with a chapter that is no mapping, or whose storyProgress is text
OddChapterLists ==
    {[ChapterList(n, 0, dips, 0) EXCEPT ![k] = odd] :
        n \in {3, TARGET_CHAPTERS}, dips \in {{}, {3}}, k \in {1, 2},
        odd \in {Item(FALSE, FALSE, 0, 0, 0), Item(TRUE, FALSE, 0, 0, 0)}}

NoArcs == [isdict |-> FALSE, acts |-> <<>>]
ArcsPool ==
    {NoArcs,
     [isdict |-> TRUE, acts |-> [a \in RequiredActs |-> 3]],
     [isdict |-> TRUE, acts |-> [a \in RequiredActs |->
                                    IF a = "act3" THEN 2 ELSE 3]],
     [isdict |-> TRUE, acts |-> [a \in {"act1", "act2a"} |-> 3]]}

StoryArcInputs ==
    {[task_type |-> "story_arc",
      data |-> [is_list |-> TRUE, items |-> l, arcs |-> a]] :
        l \in ChapterLists \cup OddChapterLists \cup {<<>>}, a \in ArcsPool}
    \cup {[task_type |-> "story_arc",
           data |-> [is_list |-> FALSE, items |-> <<>>, arcs |-> NoArcs]]}

\* casts of n characters of one kind, the first possibly of another
CharacterKinds ==
    {Item(TRUE, FALSE, 0, REQUIRED_CHAR_FIELDS, 2),
     Item(TRUE, FALSE, 0, 4, 1),
     Item(TRUE, FALSE, 0, 0, -1),
     Item(FALSE, FALSE, 0, 0, 0)}

CharacterLists ==
    {[i \in 1 .. n |-> IF i = 1 THEN c1 ELSE c] :
        n \in 0 .. 7, c1 \in CharacterKinds, c \in CharacterKinds}

CharactersInputs ==
    {[task_type |-> "characters",
      data |-> [is_list |-> TRUE, items |-> l, arcs |-> NoArcs]] :
        l \in CharacterLists}
    \cup {[task_type |-> "characters",
           data |-> [is_list |-> FALSE, items |-> <<>>, arcs |-> NoArcs]]}

InitStructure ==
    /\ ValidatorIdle
    /\ tech_in = <<>>
    /\ tech_out = <<>>
    /\ narr_in = <<>>
    /\ narr_out = <<>>
    /\ ema_in = <<>>
    /\ ema_n = 0
    /\ struct_in \in StoryArcInputs \cup CharactersInputs
    /\ struct_out = <<>>
    /\ CacheIdle

CalculateStructure ==
    /\ struct_out = <<>>
    /\ struct_out' = << calculate_structure_score(struct_in.data,
                                                  struct_in.task_type) >>
    /\ UNCHANGED <<validatorVars, stepVars, scoreVars, weightVars, tech_in,
                   tech_out, narr_in, narr_out, ema_in, ema_n, struct_in, cacheVars>>

NextStructure == CalculateStructure

SpecStructure == InitStructure /\ [][NextStructure]_vars

----------------------------------------------------------------------------
(* Claims about the structure scorer (SpecStructure)                        *)

\* every chapter of the list is a mapping with a numeric storyProgress
ProgressGiven(chapters) ==
    \A i \in 1 .. Len(chapters) : chapters[i].isdict /\ chapters[i].numeric

\* the chapters whose progress does not exceed that of the chapter before
ViolatingChapters(chapters) ==
    {i \in 2 .. Len(chapters) : chapters[i].progress <= chapters[i - 1].progress}

\* C21 as stated: for a non-empty story_arc chapter list with v violations
\* (storyProgress[i] <= storyProgress[i-1]) among n chapters, the
\* progress_monotonic sub-score is 10 when v = 0, 10 * (1 - v/n) when
\* 1 <= v <= 2 (below 10), and 0 when v > 2.
C21_ProgressPartialCredit ==
    (/\ struct_out # <<>>
     /\ struct_in.task_type = "story_arc"
     /\ struct_in.data.is_list
     /\ Len(struct_in.data.items) > 0
     /\ ProgressGiven(struct_in.data.items)) =>
        LET n == Len(struct_in.data.items)
            v == Cardinality(ViolatingChapters(struct_in.data.items))
        IN  struct_out[1].breakdown.progress_monotonic =
                IF v = 0 THEN R(10)
                ELSE IF v <= 2 THEN RMul(R(10), RAdd(One, Rat(-v, n)))
                ELSE Zero

\* C22 as stated: the count sub-score never exceeds 20, and no cast size
\* other than 5 and no chapter count other than 12 earns as much as the
\* exact target does.
C22_CountScoreMaximalAtTarget ==
    (struct_out # <<>> /\ struct_in.data.is_list) =>
        LET n == Len(struct_in.data.items)
            b == struct_out[1].breakdown
        IN  IF struct_in.task_type = "characters"
            THEN /\ RLeq(b.character_count, R(20))
                 /\ n # 5 => RLess(b.character_count, R(20))
            ELSE /\ RLeq(b.chapter_count, R(20))
                 /\ n # 12 => RLess(b.chapter_count, R(20))

----------------------------------------------------------------------------
(* Claim about the evaluator's cache (SpecNarrativeCache)                   *)

\* the i-th evaluate call obtained and parsed a judge reply
Judged(i) ==
    /\ judge_log[i].calls > 0
    /\ ~judge_log[i].raised
    /\ judge_log[i].breakdown.evaluation_method = "ai"

\* the time at which the i-th call had its reply
JudgedAt(i) == judge_log[i].at + judge_log[i].calls * JUDGE_SECONDS

\* the j-th call is for the content of the i-th and starts within the TTL of it
LaterWithinTtl(i, j) ==
    /\ i < j
    /\ judge_log[j].content = judge_log[i].content
    /\ judge_log[j].at - JudgedAt(i) < 3600

\* the j-th call repeats the i-th without calling the judge
ServedFromCache(i, j) ==
    /\ judge_log[j].calls = 0
    /\ judge_log[j].score = judge_log[i].score
    /\ judge_log[j].breakdown = judge_log[i].breakdown

\* the j-th call comes an hour or more after the i-th, the last judged call
\* for its content before it
FirstAfterTtl(i, j) ==
    /\ i < j
    /\ judge_log[j].content = judge_log[i].content
    /\ judge_log[j].at - JudgedAt(i) >= 3600
    /\ \A k \in (i + 1) .. (j - 1) :
          ~(judge_log[k].content = judge_log[i].content /\ Judged(k))

EvictedBetween(i, j) ==
    \E k \in i .. (j - 1) : judge_log[k].evicted = judge_log[i].content

----------------------------------------------------------------------------
(* Claims about the scoring loop as a coroutine (SpecTask)                  *)

\* the step changes the reputation state only for uid: its violation count,
\* its blacklisting, one history entry of its own
TouchesOnly(uid) ==
    /\ \A v \in Peers \ {uid} :
          ViolationsOf(violations', v) = ViolationsOf(violations, v)
    /\ blacklist' \subseteq blacklist \cup {uid}
    /\ blacklist \subseteq blacklist'
    /\ \/ history' = history
       \/ /\ Len(history') > 0
          /\ history'[Len(history')].uid = uid
          /\ history' = DequeAppend(history, history'[Len(history')])

\* C24: responses are scored strictly one at a time: from the plagiarism
\* check of a response to its violation update or history append, the only
\* thing that happens is that response's own update; no other response, of
\* this step or of another, is checked in between, no step starts, and
\* outside that window the history, the violation counts and the blacklist
\* do not change.
C24_ScoredOneAtATime ==
    [][ /\ in_flight # <<>> =>
             \E i \in DOMAIN in_flight :
                /\ DOMAIN in_flight = {i}
                /\ in_flight' = <<>>
                /\ settled' = settled \cup {i}
                /\ steps' = steps
                /\ selected_uids' = selected_uids
                /\ TouchesOnly(selected_uids[i])
        /\ in_flight = <<>> => UNCHANGED <<history, violations, blacklist>>
      ]_vars

\* in the second step, with a history to read, the second response of the
\* batch has been checked and the loop has not yet settled it
C24_Witness ==
    /\ steps = 2
    /\ history # <<>>
    /\ settled = {1}
    /\ DOMAIN in_flight = {2}

----------------------------------------------------------------------------
(* Claims about what a validation step leaves behind (Spec)                 *)

\* the entries the step appended for the peer u
AppendedFor(u) ==
    {j \in (Len(history) + 1) .. Len(history') : history'[j].uid = u}

\* C25 as stated: every response that run_step consumes with non-null
\* output_data, a response flagged as plagiarism included, is appended to
\* the history exactly once during that step.
C25_EveryOutputRecordedOnce ==
    [][StepTaken =>
          \A i \in 1 .. Len(selected_uids') :
              AsSynapse(responses'[i]).output_data # NoData =>
                  Cardinality(AppendedFor(selected_uids'[i])) = 1
      ]_vars

\* what the code does: a response with output is appended exactly once if
\* the step scored it without flagging it, and not at all if it was flagged
\* or if the step ended in its handler before or while scoring it
UnflaggedScoredRecordedOnce ==
    [][StepTaken =>
          \A i \in 1 .. Len(selected_uids') :
              LET u == selected_uids'[i]
              IN  AsSynapse(responses'[i]).output_data # NoData =>
                      Cardinality(AppendedFor(u)) =
                          IF u \in DOMAIN new_scores' /\ u \notin DOMAIN flags'
                          THEN 1 ELSE 0
      ]_vars

\* C26: in every reachable state of the validator a peer is in the
\* blacklist if and only if its violation count is at least 3, and no
\* peer's violation count ever decreases.
C26_BlacklistIffThreeViolations ==
    /\ [](\A u \in Peers :
             u \in blacklist <=> ViolationsOf(violations, u) >= MAX_VIOLATIONS)
    /\ [][\A u \in Peers :
             ViolationsOf(violations', u) >= ViolationsOf(violations, u)]_vars

\* one peer has been flagged three times and is blacklisted while the other,
\* flagged fewer times, is not
C26_Witness ==
    \E u, v \in Peers :
        /\ ViolationsOf(violations, u) = MAX_VIOLATIONS
        /\ u \in blacklist
        /\ ViolationsOf(violations, v) \in 1 .. (MAX_VIOLATIONS - 1)
        /\ v \notin blacklist

\* C27 as stated: if run_step ends with an error part-way through a batch,
\* the reputation state is as it was before the step: the violation counts,
\* the blacklist, the history and the EMA scores are all unchanged.
C27_FailedStepLeavesNoTrace ==
    [][(StepTaken /\ raised' # NoUid) =>
          UNCHANGED <<violations, blacklist, history, scores>>]_vars

\* what the handler does leave alone: the EMA scores and the query count
FailedStepKeepsEma ==
    [][(StepTaken /\ raised' # NoUid) => UNCHANGED <<scores, total_queries>>]_vars

\* the flags run_step raises when it scores the batch of the step in the
\* order given by the permutation p, from the state the step started in
FlagsInOrder(p) ==
    LET n == Len(selected_uids')
    IN  ScoreLoop([violations |-> violations, blacklist |-> blacklist,
                   history |-> history, new_scores |-> EmptyDict,
                   flags |-> EmptyDict, raised |-> NoUid],
                  1, [i \in 1 .. n |-> selected_uids'[p[i]]],
                  [i \in 1 .. n |-> responses'[p[i]]], model_policy).flags

\* C28 as stated: for a given batch of responses and a given history at the
\* start of the step, the peers that run_step flags for plagiarism, and the
\* kind of each flag, do not depend on the order in which the responses of
\* the batch are scored.
C28_FlagsOrderIndependent ==
    [][StepTaken =>
          \A p \in Permutations(1 .. Len(selected_uids')) :
              FlagsInOrder(p) = flags'
      ]_vars

----------------------------------------------------------------------------
(* Claims about the selection of miners (SpecSelect)                        *)

\* the uids at the first k positions of a selection
FirstOf(sel, k) == {sel[i] : i \in 1 .. k}

\* C29: whenever at least one miner is available, run_step selects exactly
\* min(10, number of available miners) peers, all distinct, none
\* blacklisted and none with an invalid axon; the first int(0.7 * that
\* number) of them are the available peers with the highest EMA scores.
C29_SelectionShape ==
    [][(steps' = steps + 1 /\ \E u \in DOMAIN axons : axons[u] /\ u \notin blacklist) =>
          LET available == {u \in DOMAIN axons : axons[u] /\ u \notin blacklist}
              n == IF Cardinality(available) < 10 THEN Cardinality(available)
                   ELSE 10
              k == (7 * n) \div 10
              sel == selected_uids'
          IN  /\ Len(sel) = n
              /\ \A i, j \in 1 .. Len(sel) : i # j => sel[i] # sel[j]
              /\ \A i \in 1 .. Len(sel) :
                    sel[i] \notin blacklist /\ axons[sel[i]]
              /\ \A u \in FirstOf(sel, k), v \in available \ FirstOf(sel, k) :
                    RLeq(EmaOf(scores, v), EmaOf(scores, u))
      ]_vars

\* a step selected 10 of more than 10 available miners while one peer was
\* blacklisted and one had an unusable axon, the only peer with an EMA score
\* above 0 among the first 7
C29_Witness ==
    /\ Len(selected_uids) = 10
    /\ Cardinality(AvailableMiners(axons, blacklist)) > 10
    /\ blacklist # {}
    /\ \E u \in DOMAIN axons : ~axons[u]
    /\ \E u \in FirstOf(selected_uids, 7) : RLess(Zero, EmaOf(scores, u))

----------------------------------------------------------------------------
(* Claims about blacklisted peers and the weights (SpecReputation)          *)

====
